---- MODULE Spec2Model ----
(***************************************************************************)
(* A model of the jepsen-rs core: the history log (src/src/history.rs),    *)
(* the nemesis register (src/src/nemesis/register.rs), the id pool of the  *)
(* Global context (src/src/generator/context.rs), and Generators and their *)
(* merging by a GeneratorGroup (src/src/generator/mod.rs, traits.rs).      *)
(*                                                                         *)
(* Each Rust function is a pure operator computed the way the code         *)
(* computes it; each action applies one of them to the state.  The         *)
(* module holds several specifications, one per component:                 *)
(*   SpecHist  - a single caller driving the history log API               *)
(*   SpecRun   - the run loop: tasks pushing to the shared log             *)
(*   SpecReg   - put calls on a fresh nemesis register                     *)
(*   SpecPool  - alloc_new_generator / free_generator on the id pool       *)
(*   SpecGenNew   - Generator::new on a shared Global                      *)
(*   SpecConc     - concurrent callers of Global, lock step by lock step   *)
(*   SpecGroup    - collect / collect_all draining a GeneratorGroup        *)
(*   SpecGroupFair - SpecGroup with the collecting task scheduled fairly   *)
(*   SpecRunGroup - the run loop fed by a GeneratorGroup                   *)
(*   SpecGen      - map / filter / take / split_at / next on a Generator   *)
(*   SpecCancel   - a Generator::next future that may be dropped           *)
(*   SpecNem      - push_nemesis over every nemesis variant                *)
(*   SpecCodec    - the history written to JSON and read back              *)
(*   SpecRegSet   - put calls interleaved with set_strategy                *)
(*   SpecTime     - concurrent pushes on the locked log, clock advancing   *)
(***************************************************************************)
EXTENDS Integers, Sequences, FiniteSets, TLC

VARIABLES
    history,      \* SerializableHistoryList.0 : Vec<SerializableHistory>
    now,          \* madsim virtual clock, time::Instant::now()
    start_time,   \* Global.start_time
    panicked,     \* TRUE once an assert! / unreachable! has fired
    lastCall,     \* ghost: the last history call and its arguments
    pushedBy,     \* ghost: per entry, the function that appended it
    stream,       \* run loop: items of the merged stream not yet pulled
    task,         \* run loop: per process, what it is doing
    hitem,        \* ghost: per entry, the stream item it was recorded for
    clientCalls,  \* ghost: per stream item, number of cluster client calls
    queue,        \* NemesisRegister.queue : VecDeque<T>
    strategy,     \* NemesisRegister.strategy
    putLog,       \* ghost: one record per put call, in call order
    thread_pool,  \* Global.thread_pool : BTreeMap<GeneratorId, NodeHandle>
    lastAlloc,    \* ghost: the last alloc_new_generator call
    pulled,       \* ghost: the (item, id) pairs pulled from the merged stream
    gens,         \* the live Generators made by Generator::new, in creation order
    thr,          \* concurrent callers of Global: per thread, its position
    locks,        \* per Mutex of Global, the thread holding it (0: free)
    rawgen,       \* the raw generator: number of items handed out
    group,        \* GeneratorGroup: generators in rotation, strategy, emitted
    output,       \* the items gathered from the merged stream, in order
    gdone,        \* TRUE once the merged stream has ended
    ginit,        \* ghost: the generators the group was built from
    genlog,       \* ghost: what was done to the Generator in gens, and its source
    codec         \* conversion of a history list: the value, its document, the value read back

histVars == <<history, now, start_time, panicked, lastCall, pushedBy>>
runVars  == <<stream, task, hitem, clientCalls, pulled>>
regVars  == <<queue, strategy, putLog>>
poolVars == <<thread_pool, lastAlloc>>
genVars  == <<gens, genlog>>
concVars == <<thr, locks, rawgen>>
groupVars == <<group, output, gdone, ginit>>
codecVars == <<codec>>
auxVars  == <<genVars, concVars, groupVars, codecVars>>
vars == <<histVars, runVars, regVars, poolVars, auxVars>>

(***************************************************************************)
(* Bounds of the model.                                                    *)
(***************************************************************************)
MaxHist  == 3   \* entries appended to the log in SpecHist
MaxTime  == 1   \* ticks of the virtual clock
MaxItems == 3   \* items of the merged stream in SpecRun
MaxPuts  == 4   \* put calls on the register
MaxSize  == 2   \* largest max_size of a register strategy
MaxPool  == 4   \* ids 0..MaxPool-1 may be held in the pool
MaxGens  == 2   \* live Generators made by Generator::new
MaxOps   == 2   \* operations each concurrent caller of Global performs
MaxGroup == 2   \* Generators merged by one GeneratorGroup
MaxSeqLen == 3  \* length of the longest sequence of a merged Generator
MaxQuota == 2   \* largest count given to new_with_count
MaxLimit == 2   \* largest finite limit of RoundRobin(limit)
MaxSrc   == 13  \* length of the longest source sequence of a transformed Generator
MaxTake  == 2   \* largest bounded argument of take and split_at
MaxPipe  == 3   \* transformations applied to one Generator

(***************************************************************************)
(* Option<T> is a sequence of length <= 1.                                 *)
(***************************************************************************)
None == <<>>
Some(x) == <<x>>
IsNone(o) == Len(o) = 0
IsSome(o) == Len(o) = 1
Unwrap(o) == o[1]

(***************************************************************************)
(* Data model.                                                             *)
(***************************************************************************)
\* enum HistoryType
HistoryType == {"Invoke", "Ok", "Fail", "Info"}

\* enum HistoryProcess: Nemesis | Gen(u64)
ProcessGen(id) == [kind |-> "Gen", id |-> id]
ProcessNemesis == [kind |-> "Nemesis", id |-> 0]

\* enum Op: Read(key, Option<value>) | Write(key, value) | Txn(Vec<Op>)
OpRead(k, v)   == [kind |-> "Read", key |-> k, val |-> v, ops |-> <<>>]
OpWrite(k, v)  == [kind |-> "Write", key |-> k, val |-> Some(v), ops |-> <<>>]
OpTxn(ops)     == [kind |-> "Txn", key |-> 0, val |-> None, ops |-> ops]

\* OpFunctionType::from(&Op): the label of an operation
OpFunctionTypeOf(op) ==
    CASE op.kind = "Read"  -> "read"
      [] op.kind = "Write" -> "write"
      [] op.kind = "Txn"   -> "txn"

\* enum OpOrNemesisFuncType: Op(OpFunctionType) | Nemesis(SerializableNemesisType)
FuncOp(name)      == [kind |-> "Op", name |-> name]
FuncNemesis(name) == [kind |-> "Nemesis", name |-> name]

\* enum HistoryValue: String(String) | Op(Op)
ValueOp(op)       == [kind |-> "Op", op |-> op, text |-> <<>>]
ValueString(text) == [kind |-> "String", op |-> OpTxn(<<>>), text |-> text]

\* enum NemesisType / NemesisRecord; arg is the set of server ids (or the
\* count) the variant carries, {} when it carries none.
NemesisValue(variant, arg) == [variant |-> variant, arg |-> arg]
\* enum AllNemesis (NemesisGen): Execute(NemesisType) | Recover(NemesisRecord)
Execute(n) == [tag |-> "Execute", n |-> n]
Recover(n) == [tag |-> "Recover", n |-> n]

PartitionTypes == {"SplitOne", "PartitionHalves", "PartitionRandomN",
                   "PartitionMajoritiesRing", "PartitionLeaderAndMajority",
                   "LeaderSendToMajorityButCannotReceive"}

FromNemesisType_records_noop(n) ==
    CASE n.variant = "Noop"  -> "Kill"
      [] n.variant = "Kill"  -> "Kill"
      [] n.variant = "Pause" -> "Pause"
      [] n.variant \in PartitionTypes -> "Partition"

\* impl From<&NemesisType> for SerializableNemesisType; "unreachable" stands
\* for the unreachable!() panic of the Noop arm.
FromNemesisType(n) ==
    CASE n.variant = "Noop"  -> "unreachable"
      [] n.variant = "Kill"  -> "Kill"
      [] n.variant = "Pause" -> "Pause"
      [] n.variant \in PartitionTypes -> "Partition"

FromNemesisRecord_same_name(n) ==
    CASE n.variant = "Noop"  -> "unreachable"
      [] n.variant = "Kill"  -> "Kill"
      [] n.variant = "Pause" -> "Pause"
      [] n.variant = "Net"   -> "Join"

\* impl From<&NemesisRecord> for SerializableNemesisType
FromNemesisRecord(n) ==
    CASE n.variant = "Noop"  -> "unreachable"
      [] n.variant = "Kill"  -> "Resume"
      [] n.variant = "Pause" -> "Start"
      [] n.variant = "Net"   -> "Join"

\* impl From<&NemesisGen> for SerializableNemesisType
FromNemesisGen(g) ==
    IF g.tag = "Execute" THEN FromNemesisType(g.n) ELSE FromNemesisRecord(g.n)

\* impl From<NemesisGen> for String: format!("Execute: {}", json) /
\* format!("Recover: {}", json); the text is the prefix followed by the
\* encoded variant and its argument.
NemesisGenToString(g) ==
    IF g.tag = "Execute"
    THEN <<"Execute: ", g.n.variant, g.n.arg>>
    ELSE <<"Recover: ", g.n.variant, g.n.arg>>

(***************************************************************************)
(* History log, src/src/history.rs.                                        *)
(***************************************************************************)
\* SerializableHistoryList::timestamp
timestamp(t, start) == t - start

\* struct SerializableHistory
SerializableHistory(index, type_, f, value, time, process, error) ==
    [index |-> index, type_ |-> type_, f |-> f, value |-> value,
     time |-> time, process |-> process, error |-> error]


\* The Global seen by the log: the clock reading and the run's start instant.
GlobalOf(t, start) == [now |-> t, start_time |-> start]

\* A call's outcome: whether it panicked, and the list it leaves behind.
Outcome(panic, list) == [panic |-> panic, list |-> list]

push_invoke_index_from_one(self, global, process, value) ==
    Outcome(FALSE, Append(self,
        SerializableHistory(Len(self) + 1, "Invoke",
            FuncOp(OpFunctionTypeOf(value)), ValueOp(value),
            timestamp(global.now, global.start_time), ProcessGen(process), None)))

push_invoke_twice(self, global, process, value) ==
    LET item(i) == SerializableHistory(i, "Invoke",
            FuncOp(OpFunctionTypeOf(value)), ValueOp(value),
            timestamp(global.now, global.start_time), ProcessGen(process), None)
    IN Outcome(FALSE, Append(Append(self, item(Len(self))), item(Len(self) + 1)))

\* SerializableHistoryList::push_invoke
push_invoke(self, global, process, value) ==
    LET f     == FuncOp(OpFunctionTypeOf(value))
        item  == SerializableHistory(Len(self), "Invoke", f, ValueOp(value),
                     timestamp(global.now, global.start_time),
                     ProcessGen(process), None)
    IN Outcome(FALSE, Append(self, item))

push_result_no_assert(self, global, process, result_type, value, error) ==
    Outcome(FALSE, Append(self,
        SerializableHistory(Len(self), result_type,
            FuncOp(OpFunctionTypeOf(value)), ValueOp(value),
            timestamp(global.now, global.start_time), ProcessGen(process), error)))

push_result_assert_after_push(self, global, process, result_type, value, error) ==
    Outcome((result_type = "Ok") # IsNone(error), Append(self,
        SerializableHistory(Len(self), result_type,
            FuncOp(OpFunctionTypeOf(value)), ValueOp(value),
            timestamp(global.now, global.start_time), ProcessGen(process), error)))

push_result_index_of_last(self, global, process, result_type, value, error) ==
    IF (result_type = "Ok") # IsNone(error)
    THEN Outcome(TRUE, self)
    ELSE Outcome(FALSE, Append(self,
        SerializableHistory(IF Len(self) = 0 THEN 0 ELSE Len(self) - 1, result_type,
            FuncOp(OpFunctionTypeOf(value)), ValueOp(value),
            timestamp(global.now, global.start_time), ProcessGen(process), error)))

push_result_assert_error_absent(self, global, process, result_type, value, error) ==
    IF IsSome(error)
    THEN Outcome(TRUE, self)
    ELSE Outcome(FALSE, Append(self,
        SerializableHistory(Len(self), result_type,
            FuncOp(OpFunctionTypeOf(value)), ValueOp(value),
            timestamp(global.now, global.start_time), ProcessGen(process), error)))

\* SerializableHistoryList::push_result
push_result(self, global, process, result_type, value, error) ==
    IF (result_type = "Ok") # IsNone(error)
    THEN Outcome(TRUE, self)             \* assert!(..., "result type mismatch")
    ELSE LET f    == FuncOp(OpFunctionTypeOf(value))
             item == SerializableHistory(Len(self), result_type, f, ValueOp(value),
                         timestamp(global.now, global.start_time),
                         ProcessGen(process), error)
         IN Outcome(FALSE, Append(self, item))

push_nemesis_insert_front(self, global, value) ==
    IF FromNemesisGen(value) = "unreachable"
    THEN Outcome(TRUE, self)
    ELSE Outcome(FALSE, <<SerializableHistory(Len(self), "Info",
            FuncNemesis(FromNemesisGen(value)),
            ValueString(NemesisGenToString(value)),
            timestamp(global.now, global.start_time), ProcessNemesis, None)>> \o self)

\* SerializableHistoryList::push_nemesis
push_nemesis(self, global, value) ==
    LET f == FromNemesisGen(value)
    IN IF f = "unreachable"
       THEN Outcome(TRUE, self)          \* unreachable!("Noop will not be recorded")
       ELSE LET item == SerializableHistory(Len(self), "Info", FuncNemesis(f),
                            ValueString(NemesisGenToString(value)),
                            timestamp(global.now, global.start_time),
                            ProcessNemesis, None)
            IN Outcome(FALSE, Append(self, item))

(***************************************************************************)
(* Inputs of the history actions.                                          *)
(***************************************************************************)
Processes  == {0, 1}
\* The (process, operation) pairs a caller hands to push_invoke / push_result.
Calls      == {[process |-> 0, value |-> OpRead(1, None)],
               [process |-> 1, value |-> OpWrite(1, 1)]}
Errors     == {None, Some(<<"timeout">>)}
Nemeses    == {Execute(NemesisValue("Kill", {1, 2})),
               Execute(NemesisValue("Noop", {})),
               Recover(NemesisValue("Net", {1}))}

NoCall == [fn |-> "none", type_ |-> "Invoke", error |-> None]
Call(fn, type_, error) == [fn |-> fn, type_ |-> type_, error |-> error]

\* What a call leaves in the history variables.
Applied(out, call) ==
    /\ history' = out.list
    /\ panicked' = out.panic
    /\ lastCall' = call
    /\ pushedBy' = pushedBy \o [i \in 1..(Len(out.list) - Len(history)) |-> call.fn]
    /\ UNCHANGED <<now, start_time>>

HistInit ==
    /\ history = <<>>
    /\ now = 0
    /\ start_time = now
    /\ panicked = FALSE
    /\ lastCall = NoCall
    /\ pushedBy = <<>>

RunIdle ==
    /\ stream = <<>>
    /\ task = <<>>
    /\ hitem = <<>>
    /\ clientCalls = <<>>
    /\ pulled = <<>>

RegIdle ==
    /\ queue = <<>>
    /\ strategy = [kind |-> "FIFO", max_size |-> 1]
    /\ putLog = <<>>

PoolIdle ==
    /\ thread_pool = <<>>
    /\ lastAlloc = <<>>

GenIdle ==
    /\ gens = <<>>
    /\ genlog = <<>>

ConcIdle ==
    /\ thr = <<>>
    /\ locks = <<>>
    /\ rawgen = 0

GroupIdle ==
    /\ group = <<>>
    /\ output = <<>>
    /\ gdone = FALSE
    /\ ginit = <<>>

CodecIdle == codec = <<>>

AuxIdle == GenIdle /\ ConcIdle /\ GroupIdle /\ CodecIdle

\* The virtual clock advances.
Tick ==
    /\ ~panicked
    /\ now < MaxTime
    /\ now' = now + 1
    /\ UNCHANGED <<history, start_time, panicked, lastCall, pushedBy>>
    /\ UNCHANGED <<runVars, regVars, poolVars, auxVars>>

PushInvoke ==
    /\ ~panicked
    /\ Len(history) < MaxHist
    /\ \E c \in Calls :
         Applied(push_invoke(history, GlobalOf(now, start_time), c.process, c.value),
                 Call("push_invoke", "Invoke", None))
    /\ UNCHANGED <<runVars, regVars, poolVars, auxVars>>

PushResult ==
    /\ ~panicked
    /\ Len(history) < MaxHist
    /\ \E c \in Calls, result_type \in HistoryType, error \in Errors :
         Applied(push_result(history, GlobalOf(now, start_time), c.process,
                             result_type, c.value, error),
                 Call("push_result", result_type, error))
    /\ UNCHANGED <<runVars, regVars, poolVars, auxVars>>

PushNemesis ==
    /\ ~panicked
    /\ Len(history) < MaxHist
    /\ \E value \in Nemeses :
         Applied(push_nemesis(history, GlobalOf(now, start_time), value),
                 Call("push_nemesis", "Info", None))
    /\ UNCHANGED <<runVars, regVars, poolVars, auxVars>>

InitHist == HistInit /\ RunIdle /\ RegIdle /\ PoolIdle /\ AuxIdle
NextHist == Tick \/ PushInvoke \/ PushResult \/ PushNemesis
SpecHist == InitHist /\ [][NextHist]_vars


(***************************************************************************)
(* Claims about the history log, checked under SpecHist.                   *)
(***************************************************************************)
PushFns == {"push_invoke", "push_result", "push_nemesis"}
\* A step of SpecHist that is a call of the log (not a clock tick).
IsPushStep == now' = now /\ vars' # vars

\* C1: read in append order, the index fields of the log are exactly
\* 0, 1, ..., len-1: every push assigns index = length at insertion.
C1_IndexIsPosition ==
    \A i \in 1..Len(history) : history[i].index = i - 1

C1_Witness ==
    /\ Len(history) >= 3
    /\ {pushedBy[i] : i \in 1..Len(pushedBy)} = PushFns

\* C2 as stated: every entry has type Ok iff its error is absent.
C2_OkIffNoError ==
    \A i \in 1..Len(history) :
        (history[i].type_ = "Ok") <=> IsNone(history[i].error)

\* C2 amended: an Ok entry never carries an error; for the entries appended
\* by push_result the type is Ok iff the error is absent; the entries of
\* push_invoke (Invoke) and push_nemesis (Info) carry no error and are not Ok.
C2_OkIffNoErrorOfResults ==
    \A i \in 1..Len(history) :
        /\ history[i].type_ = "Ok" => IsNone(history[i].error)
        /\ pushedBy[i] = "push_result" =>
             ((history[i].type_ = "Ok") <=> IsNone(history[i].error))
        /\ pushedBy[i] \in {"push_invoke", "push_nemesis"} =>
             (IsNone(history[i].error) /\ history[i].type_ \in {"Invoke", "Info"})

C2_Witness ==
    /\ \E i \in 1..Len(history) :
         pushedBy[i] = "push_result" /\ history[i].type_ = "Ok"
    /\ \E i \in 1..Len(history) :
         pushedBy[i] = "push_result" /\ history[i].type_ = "Fail"
           /\ IsSome(history[i].error)
    /\ \E i \in 1..Len(history) : pushedBy[i] = "push_invoke"

C4_MismatchPanicsLogUntouched ==
    [][ ( /\ IsPushStep
          /\ lastCall'.fn = "push_result"
          /\ (lastCall'.type_ = "Ok") # IsNone(lastCall'.error) )
        => (panicked' /\ history' = history /\ pushedBy' = pushedBy) ]_vars

C4_Witness ==
    /\ panicked
    /\ lastCall.fn = "push_result"
    /\ lastCall.type_ = "Ok"
    /\ IsSome(lastCall.error)
    /\ Len(history) >= 1

\* C31: push_result only appends terminal entries: every entry appended by
\* a push_result call that returned has type Ok, Fail or Info, never Invoke.
\* The assertion compares (result_type = Ok) with (error absent) only, so
\* the call (Invoke, Some(error)) passes it and appends an Invoke entry.
C31_ResultsAreTerminal ==
    \A i \in 1..Len(history) :
        pushedBy[i] = "push_result" => history[i].type_ \in {"Ok", "Fail", "Info"}


(***************************************************************************)
(* The run loop.  Every item pulled from the merged stream is an           *)
(* (operation, process id) pair; the loop records its invocation, hands it *)
(* to the cluster client and records the client's answer.  Each push holds *)
(* the lock of Global.history for the whole append, so it is one step.     *)
(***************************************************************************)
\* TestOpGen::gen: the operations the raw generator hands out, in order.
OpsCycle == <<OpWrite(1, 1),
              OpTxn(<<OpRead(1, Some(1)), OpWrite(1, 1)>>),
              OpRead(1, Some(1))>>
OpOfItem(n) == OpsCycle[((n - 1) % Len(OpsCycle)) + 1]

IdleTask == [pc |-> "idle", item |-> 0, op |-> OpTxn(<<>>),
             ok |-> TRUE, error |-> None]

\* The operation as the cluster returns it: every read filled in with the
\* value v found in the database.
FillReads(op, v) ==
    CASE op.kind = "Read"  -> OpRead(op.key, v)
      [] op.kind = "Write" -> op
      [] op.kind = "Txn"   ->
           OpTxn([i \in 1..Len(op.ops) |->
                    IF op.ops[i].kind = "Read" THEN OpRead(op.ops[i].key, v)
                    ELSE op.ops[i]])

\* TestCluster::get / put / txn: the completed operation (key 1 holds 1),
\* or the error of a cluster that lost its quorum.
ClientResult(op) ==
    {[ok |-> TRUE, error |-> None, op |-> FillReads(op, Some(1))]}
    \cup
    {[ok |-> FALSE, error |-> Some(<<"nemesis_num > quorum">>), op |-> op]}

InitRun ==
    /\ HistInit /\ RegIdle /\ PoolIdle /\ AuxIdle
    /\ pulled = <<>>
    /\ \E ids \in [1..MaxItems -> Processes] :
         stream = [n \in 1..MaxItems |->
                      [item |-> n, op |-> OpOfItem(n), id |-> ids[n]]]
    /\ task = [p \in Processes |-> IdleTask]
    /\ hitem = <<>>
    /\ clientCalls = [n \in 1..MaxItems |-> 0]

\* The entries a step appended are recorded for item n.
Tagged(n) ==
    hitem' = hitem \o [i \in 1..(Len(history') - Len(history)) |-> n]

\* Pull the next item; its process records the invocation.
Dispatch ==
    /\ ~panicked
    /\ stream # <<>>
    /\ LET it == Head(stream) IN
         /\ task[it.id].pc = "idle"
         /\ Applied(push_invoke(history, GlobalOf(now, start_time), it.id, it.op),
                    Call("push_invoke", "Invoke", None))
         /\ Tagged(it.item)
         /\ task' = [task EXCEPT ![it.id] =
                       [IdleTask EXCEPT !.pc = "invoked", !.item = it.item,
                                        !.op = it.op]]
    /\ stream' = Tail(stream)
    /\ pulled' = Append(pulled, Head(stream))
    /\ UNCHANGED <<clientCalls, regVars, poolVars, auxVars>>

\* The cluster client executes the operation of process p.
ClientCall(p) ==
    /\ ~panicked
    /\ task[p].pc = "invoked"
    /\ \E r \in ClientResult(task[p].op) :
         task' = [task EXCEPT ![p] =
                    [pc |-> "returned", item |-> task[p].item, op |-> r.op,
                     ok |-> r.ok, error |-> r.error]]
    /\ clientCalls' = [clientCalls EXCEPT ![task[p].item] = @ + 1]
    /\ UNCHANGED <<histVars, stream, hitem, pulled, regVars, poolVars, auxVars>>

\* Process p records the client's answer: Ok with the completed operation,
\* Fail or Info with the error.
Complete(p) ==
    /\ ~panicked
    /\ task[p].pc = "returned"
    /\ \E result_type \in IF task[p].ok THEN {"Ok"} ELSE {"Fail", "Info"} :
         Applied(push_result(history, GlobalOf(now, start_time), p,
                             result_type, task[p].op, task[p].error),
                 Call("push_result", result_type, task[p].error))
    /\ Tagged(task[p].item)
    /\ task' = [task EXCEPT ![p] = IdleTask]
    /\ UNCHANGED <<stream, clientCalls, pulled, regVars, poolVars, auxVars>>

NextRun ==
    \/ Tick
    \/ Dispatch
    \/ \E p \in Processes : ClientCall(p)
    \/ \E p \in Processes : Complete(p)
SpecRun == InitRun /\ [][NextRun]_vars

(***************************************************************************)
(* Claims about the run, checked under SpecRun.                            *)
(***************************************************************************)
Items == 1..Len(clientCalls)
Pulled(n) == n <= Len(clientCalls) - Len(stream)
InFlight(n) == \E p \in Processes : task[p].pc # "idle" /\ task[p].item = n
Done(n) == Pulled(n) /\ ~InFlight(n)
EntriesOf(n) == {i \in 1..Len(history) : hitem[i] = n}
InvokesOf(n) == {i \in EntriesOf(n) : history[i].type_ = "Invoke"}
TerminalsOf(n) == {i \in EntriesOf(n) : history[i].type_ \in {"Ok", "Fail", "Info"}}

C6_InvokeBeforeOwnResult ==
    /\ \A i \in 1..Len(history) : \A j \in 1..Len(history) :
         i < j <=> history[i].index < history[j].index
    /\ \A n \in Items : \A i \in InvokesOf(n) : \A j \in TerminalsOf(n) :
         history[i].index < history[j].index

\* An operation invoked earlier has its result recorded after the result of
\* an operation invoked later.
C6_Witness ==
    \E a \in Items, b \in Items :
        \E ia \in InvokesOf(a), ib \in InvokesOf(b) :
        \E ta \in TerminalsOf(a), tb \in TerminalsOf(b) :
            /\ history[ia].index < history[ib].index
            /\ history[ta].index > history[tb].index

\* The run goes on: an item is pulled, executed or recorded.
RunStep ==
    \/ Dispatch
    \/ \E p \in Processes : ClientCall(p)
    \/ \E p \in Processes : Complete(p)
FailedItems ==
    {n \in Items : \E i \in TerminalsOf(n) : history[i].type_ \in {"Fail", "Info"}}

FIFO(max_size)        == [kind |-> "FIFO", max_size |-> max_size]
RandomQueue(max_size) == [kind |-> "RandomQueue", max_size |-> max_size]

\* VecDeque::remove(index), index counted from 0
RemoveAt(q, index) ==
    [i \in 1..(Len(q) - 1) |-> IF i <= index THEN q[i] ELSE q[i + 1]]

\* What put returns and the queue it leaves.
PutResult(q, record, evicted) == [queue |-> q, record |-> record, evicted |-> evicted]

put_pop_back(self, strat, n, index) ==
    LET pushed == Append(self, n) IN
    IF Len(pushed) <= strat.max_size
    THEN PutResult(pushed, n, None)
    ELSE IF strat.kind = "FIFO"
         THEN PutResult(SubSeq(pushed, 1, Len(pushed) - 1), n,
                        Some(pushed[Len(pushed)]))
         ELSE PutResult(RemoveAt(pushed, index), n, Some(pushed[index + 1]))

put_get_without_remove(self, strat, n, index) ==
    LET pushed == Append(self, n) IN
    IF Len(pushed) <= strat.max_size
    THEN PutResult(pushed, n, None)
    ELSE IF strat.kind = "FIFO"
         THEN PutResult(Tail(pushed), n, Some(Head(pushed)))
         ELSE PutResult(pushed, n, Some(pushed[index + 1]))

put_strict_less(self, strat, n, index) ==
    LET pushed == Append(self, n) IN
    IF Len(pushed) < strat.max_size
    THEN PutResult(pushed, n, None)
    ELSE IF strat.kind = "FIFO"
         THEN PutResult(Tail(pushed), n, Some(Head(pushed)))
         ELSE PutResult(RemoveAt(pushed, index), n, Some(pushed[index + 1]))

put_drops_record(self, strat, n, index) ==
    LET pushed == Append(self, n) IN
    IF Len(pushed) <= strat.max_size
    THEN PutResult(pushed, n, None)
    ELSE IF strat.kind = "FIFO"
         THEN PutResult(Tail(pushed), n, None)
         ELSE PutResult(RemoveAt(pushed, index), n, None)

\* NemesisRegister::put; index is the draw of gen_range(0..self.queue.len()),
\* read only in RandomQueue mode when the queue exceeds max_size.
put(self, strat, n, index) ==
    LET pushed == Append(self, n) IN                  \* queue.push_back(n.clone())
    IF strat.kind = "FIFO"
    THEN IF Len(pushed) <= strat.max_size
         THEN PutResult(pushed, n, None)
         ELSE PutResult(Tail(pushed), n, Some(Head(pushed)))    \* pop_front
    ELSE IF Len(pushed) <= strat.max_size
         THEN PutResult(pushed, n, None)
         ELSE PutResult(RemoveAt(pushed, index), n, Some(pushed[index + 1]))

\* NemesisRegister::new over every strategy within the bounds
Strategies == {FIFO(k) : k \in 0..MaxSize} \cup {RandomQueue(k) : k \in 0..MaxSize}
Records == {NemesisValue("Kill", {1}), NemesisValue("Pause", {2}),
            NemesisValue("Net", {1, 2})}

InitReg ==
    /\ HistInit /\ RunIdle /\ PoolIdle /\ AuxIdle
    /\ queue = <<>>
    /\ strategy \in Strategies
    /\ putLog = <<>>

HistRunPoolUnchanged == UNCHANGED <<histVars, runVars, poolVars, auxVars>>

gen_range_old_positions(lo, hi) == lo..(hi - 2)

\* thread_rng().gen_range(lo..hi): the values a draw can give
gen_range(lo, hi) == lo..(hi - 1)

\* One put call.  The draw ranges over 0..len-1 of the queue after push_back.
Put ==
    /\ Len(putLog) < MaxPuts
    /\ \E n \in Records :
       \E index \in gen_range(0, Len(Append(queue, n))) :
         LET r == put(queue, strategy, n, index) IN
           /\ queue' = r.queue
           /\ putLog' = Append(putLog,
                [n |-> n, record |-> r.record, evicted |-> r.evicted,
                 before |-> queue, after |-> r.queue, strategy |-> strategy])
    /\ UNCHANGED strategy
    /\ HistRunPoolUnchanged

NextReg == Put
SpecReg == InitReg /\ [][NextReg]_vars

(***************************************************************************)
(* Claims about the register, checked under SpecReg.                       *)
(***************************************************************************)
Range(q) == {q[i] : i \in 1..Len(q)}

\* C7: on a FIFO(k) register the first eviction happens exactly on the
\* (k+1)-th put, every evicted record is the earliest record still queued,
\* and records are evicted in the order they were put.
C7_FifoEvictsOldestFromPutKPlusOne ==
    strategy.kind = "FIFO" =>
        \A i \in 1..Len(putLog) :
            /\ i <= strategy.max_size => IsNone(putLog[i].evicted)
            /\ i = strategy.max_size + 1 => IsSome(putLog[i].evicted)
            /\ IsSome(putLog[i].evicted) =>
                 /\ Unwrap(putLog[i].evicted)
                      = Head(Append(putLog[i].before, putLog[i].n))
                 /\ Unwrap(putLog[i].evicted) = putLog[i - strategy.max_size].n

C7_Witness ==
    /\ strategy = FIFO(2)
    /\ Len(putLog) = 4
    /\ putLog[1].n # putLog[2].n
    /\ putLog[3].evicted = Some(putLog[1].n)
    /\ putLog[4].evicted = Some(putLog[2].n)

\* C8 as stated: on a RandomQueue(k) register the queue never exceeds k and
\* every evicted record was in the queue immediately before the put call.
C8_EvictedWasQueuedBefore ==
    strategy.kind = "RandomQueue" =>
        \A i \in 1..Len(putLog) :
            /\ Len(putLog[i].after) <= strategy.max_size
            /\ IsSome(putLog[i].evicted) =>
                 Unwrap(putLog[i].evicted) \in Range(putLog[i].before)

\* C8 amended: on a RandomQueue(k) register the queue never exceeds k after
\* a put, and every eviction removes one record of the queue as it is after
\* the append: a record present before the call, or the record just put.
C8_EvictedWasQueuedAfterAppend ==
    strategy.kind = "RandomQueue" =>
        \A i \in 1..Len(putLog) :
            /\ Len(putLog[i].after) <= strategy.max_size
            /\ IsSome(putLog[i].evicted) =>
                 LET pushed == Append(putLog[i].before, putLog[i].n) IN
                 \E pos \in 1..Len(pushed) :
                     /\ pushed[pos] = Unwrap(putLog[i].evicted)
                     /\ putLog[i].after = RemoveAt(pushed, pos - 1)

C8_Witness ==
    /\ strategy = RandomQueue(2)
    /\ Len(putLog) >= 3
    /\ \E i \in 1..Len(putLog) :
         /\ IsSome(putLog[i].evicted)
         /\ Unwrap(putLog[i].evicted) \notin Range(putLog[i].before)
    /\ \E i \in 1..Len(putLog) :
         /\ IsSome(putLog[i].evicted)
         /\ Unwrap(putLog[i].evicted) # putLog[i].n

\* C9: under either strategy put returns its argument as first component;
\* it returns no evicted record exactly when the queue after the append is
\* no longer than max_size, and then the queue has grown by the record;
\* otherwise exactly one entry is removed and the length is as before.
C9_PutReturn ==
    \A i \in 1..Len(putLog) :
        LET c == putLog[i]
            pushed == Append(c.before, c.n) IN
        /\ c.record = c.n
        /\ IsNone(c.evicted) <=> Len(pushed) <= strategy.max_size
        /\ IsNone(c.evicted) => c.after = pushed
        /\ IsSome(c.evicted) =>
             /\ Len(c.after) = Len(c.before)
             /\ \E pos \in 1..Len(pushed) : c.after = RemoveAt(pushed, pos - 1)

C9_Witness ==
    /\ Len(putLog) >= 3
    /\ strategy.max_size = 1
    /\ IsNone(putLog[1].evicted)
    /\ IsSome(putLog[2].evicted)
    /\ Len(queue) = 1

\* The number of positions of q that hold x
CountIn(q, x) == Cardinality({i \in 1..Len(q) : q[i] = x})
\* The records put so far and the records returned as evicted, in call order
PutRecords == [i \in 1..Len(putLog) |-> putLog[i].n]
EvictedRecords ==
    LET calls == {i \in 1..Len(putLog) : IsSome(putLog[i].evicted)} IN
    [x \in Records |-> Cardinality({i \in calls : Unwrap(putLog[i].evicted) = x})]

\* C32: under either strategy, after any sequence of put calls every record
\* was put as many times as it is queued plus as many times as it was
\* returned as evicted (nothing is lost, nothing is evicted twice), and each
\* put removes at most one entry of the queue it appended to.
C32_RecordsConserved ==
    /\ \A x \in Records :
         CountIn(PutRecords, x) = CountIn(queue, x) + EvictedRecords[x]
    /\ Range(queue) \subseteq Records
    /\ \A i \in 1..Len(putLog) :
         /\ Len(putLog[i].evicted) <= 1
         /\ Len(putLog[i].after) + Len(putLog[i].evicted) = Len(putLog[i].before) + 1

\* Four puts of two records on a register of size 2: one record was put
\* three times and evicted, the queue holds two entries.
C32_Witness ==
    /\ strategy.max_size = 2
    /\ Len(putLog) = 4
    /\ Len(queue) = 2
    /\ \E x \in Records :
         /\ CountIn(PutRecords, x) = 3
         /\ EvictedRecords[x] >= 1
         /\ CountIn(queue, x) >= 1
    /\ IsSome(putLog[3].evicted) /\ IsSome(putLog[4].evicted)

\* C30: on a RandomQueue register whose queue is full, the position of the
\* record just appended is one of the positions the draw can give, and a put
\* that draws it returns its own argument as the evicted record and leaves
\* the queue as it was before the call; every logged put that evicted its
\* own argument, the argument not being queued before, left the queue as it
\* was.
C30_MayEvictOwnArgument ==
    strategy.kind = "RandomQueue" =>
        /\ Len(queue) >= strategy.max_size =>
              \A n \in Records :
                  LET tail == Len(queue)
                      r == put(queue, strategy, n, tail) IN
                  /\ tail \in gen_range(0, Len(Append(queue, n)))
                  /\ r.record = n
                  /\ r.evicted = Some(n)
                  /\ r.queue = queue
        /\ \A i \in 1..Len(putLog) :
              (putLog[i].evicted = Some(putLog[i].n)
                 /\ putLog[i].n \notin Range(putLog[i].before))
              => putLog[i].after = putLog[i].before

\* A put on a full RandomQueue(2) register returned its own argument, a
\* record that was not queued, and the queue is what it was before.
C30_Witness ==
    /\ strategy = RandomQueue(2)
    /\ \E i \in 1..Len(putLog) :
         /\ Len(putLog[i].before) = 2
         /\ putLog[i].n \notin Range(putLog[i].before)
         /\ putLog[i].record = putLog[i].n
         /\ putLog[i].evicted = Some(putLog[i].n)
         /\ putLog[i].after = putLog[i].before
         /\ queue = putLog[i].before

(***************************************************************************)
(* SpecRegSet: put calls on a register whose strategy is changed between   *)
(* them by set_strategy / with_strategy.                                   *)
(***************************************************************************)
\* struct NemesisRegister { queue, strategy }
NemesisRegister(q, strat) == [queue |-> q, strategy |-> strat]

set_strategy_truncates(self, strat) ==
    NemesisRegister(SubSeq(self.queue, 1,
                           IF Len(self.queue) < strat.max_size
                           THEN Len(self.queue) ELSE strat.max_size),
                    strat)

\* NemesisRegister::set_strategy: self.strategy = strategy
set_strategy(self, strat) == NemesisRegister(self.queue, strat)

\* NemesisRegister::with_strategy: self.set_strategy(strategy); self
with_strategy_register(self, strat) == set_strategy(self, strat)

\* The strategies a caller changes to
NewStrategies == {FIFO(0), RandomQueue(1)}

SetStrategy ==
    /\ \E strat \in NewStrategies :
         LET r == set_strategy(NemesisRegister(queue, strategy), strat) IN
           /\ queue' = r.queue
           /\ strategy' = r.strategy
    /\ UNCHANGED putLog
    /\ HistRunPoolUnchanged

WithStrategy ==
    /\ \E strat \in NewStrategies :
         LET r == with_strategy_register(NemesisRegister(queue, strategy), strat) IN
           /\ queue' = r.queue
           /\ strategy' = r.strategy
    /\ UNCHANGED putLog
    /\ HistRunPoolUnchanged

NextRegSet == Put \/ SetStrategy \/ WithStrategy
SpecRegSet == InitReg /\ [][NextRegSet]_vars

\* C33: a step that changes the strategy leaves the queue as it was; a put
\* made while max_size is below the length of the queue returns exactly one
\* evicted record and leaves the length as it was, above max_size.
C33_StrategyChangeKeepsQueue ==
    /\ [][strategy' # strategy => (queue' = queue /\ putLog' = putLog)]_vars
    /\ [](\A i \in 1..Len(putLog) :
            putLog[i].strategy.max_size < Len(putLog[i].before) =>
                /\ IsSome(putLog[i].evicted)
                /\ Len(putLog[i].after) = Len(putLog[i].before)
                /\ Len(putLog[i].after) > putLog[i].strategy.max_size)

\* Two records were queued under size 2, the size was lowered to 0, and two
\* later puts each evicted one record: the queue still holds two.
C33_Witness ==
    /\ Len(putLog) = 4
    /\ putLog[2].strategy.max_size = 2
    /\ Len(putLog[2].after) = 2
    /\ putLog[3].strategy.max_size = 0
    /\ putLog[4].strategy.max_size = 0
    /\ IsSome(putLog[3].evicted) /\ IsSome(putLog[4].evicted)
    /\ Len(queue) = 2
    /\ strategy.max_size = 0

(***************************************************************************)
(* Id pool of the Global context, src/src/generator/context.rs.            *)
(***************************************************************************)
\* BTreeMap::keys(): the keys in ascending order
RECURSIVE SortedKeys(_)
SortedKeys(S) ==
    IF S = {} THEN <<>>
    ELSE LET m == CHOOSE x \in S : \A y \in S : x <= y
         IN <<m>> \o SortedKeys(S \ {m})

get_next_id_len(pool) == Cardinality(DOMAIN pool)

\* Global::get_next_id: the first position of the key enumeration whose key
\* differs from the position, the pool size when there is none.
RECURSIVE ScanKeys(_, _)
ScanKeys(keys, index) ==
    IF index >= Len(keys) THEN Len(keys)
    ELSE IF index # keys[index + 1] THEN index
    ELSE ScanKeys(keys, index + 1)

get_next_id(pool) == ScanKeys(SortedKeys(DOMAIN pool), 0)

\* BTreeMap::insert / BTreeMap::remove
MapInsert(pool, id, handle) ==
    [k \in (DOMAIN pool) \cup {id} |-> IF k = id THEN handle ELSE pool[k]]
MapRemove(pool, id) == [k \in (DOMAIN pool) \ {id} |-> pool[k]]

\* Global::alloc_new_generator
alloc_new_generator(pool, handle) ==
    LET id == get_next_id(pool)
    IN [pool |-> MapInsert(pool, id, handle), id |-> id]

\* Global::free_generator
free_generator(pool, id) == MapRemove(pool, id)

Handles == {"node-a", "node-b"}

InitPool ==
    /\ HistInit /\ RunIdle /\ RegIdle /\ AuxIdle
    /\ thread_pool = <<>>
    /\ lastAlloc = None

Alloc ==
    /\ Cardinality(DOMAIN thread_pool) < MaxPool
    /\ \E handle \in Handles :
         LET r == alloc_new_generator(thread_pool, handle) IN
           /\ thread_pool' = r.pool
           /\ lastAlloc' = Some([id |-> r.id, before |-> DOMAIN thread_pool,
                                 handle |-> handle])
    /\ UNCHANGED <<histVars, runVars, regVars, auxVars>>

Free ==
    /\ \E id \in 0..(MaxPool - 1) :
         thread_pool' = free_generator(thread_pool, id)
    /\ UNCHANGED lastAlloc
    /\ UNCHANGED <<histVars, runVars, regVars, auxVars>>

NextPool == Alloc \/ Free
SpecPool == InitPool /\ [][NextPool]_vars

(***************************************************************************)
(* Claims about the id pool, checked under SpecPool.                       *)
(***************************************************************************)
\* C10: an allocation returns the smallest non-negative integer not in the
\* pool: the smallest missing id when freeing left a gap, the pool size when
\* there is no gap, and never an id the pool holds.
C10_AllocSmallestMissing ==
    IsSome(lastAlloc) =>
        LET a == Unwrap(lastAlloc) IN
        /\ a.id \in Nat
        /\ a.id \notin a.before
        /\ \A j \in 0..(a.id - 1) : j \in a.before
        /\ (a.before = 0..(Cardinality(a.before) - 1)) => a.id = Cardinality(a.before)

\* An allocation that filled a gap left by free_generator, and was then
\* followed by one that found no gap.
C10_Witness ==
    /\ IsSome(lastAlloc)
    /\ Unwrap(lastAlloc).before = {0, 2, 3}
    /\ Unwrap(lastAlloc).id = 1
    /\ DOMAIN thread_pool = {0, 1, 2, 3}


(***************************************************************************)
(* Generator, src/src/generator/mod.rs.                                    *)
(***************************************************************************)
\* struct Generator: its id, the Global it refers to (an Arc, told apart by
\* a number) and the items its sequence still holds.
Generator(id, global, seq) == [id |-> id, global |-> global, seq |-> seq]

\* The Global of a run.
GLOBAL == 1

\* Generator::new: the id is read with get_next_id; the pool is not touched.
generator_new(global, pool, seq) == Generator(get_next_id(pool), global, seq)

\* Generator::new_with_id
generator_new_with_id(id, global, seq) == Generator(id, global, seq)

\* The sequences handed to Generator::new.
Seqs == {<<>>, <<1, 2>>}

InitGenNew ==
    /\ HistInit /\ RunIdle /\ RegIdle /\ PoolIdle
    /\ ConcIdle /\ GroupIdle /\ CodecIdle
    /\ gens = <<>>
    /\ genlog = <<>>

\* Generator::new on the shared Global.
GenNew ==
    /\ Len(gens) < MaxGens
    /\ \E seq \in Seqs : gens' = Append(gens, generator_new(GLOBAL, thread_pool, seq))
    /\ UNCHANGED <<genlog, histVars, runVars, regVars, poolVars, concVars, codecVars, groupVars>>

\* A Generator is dropped.
GenDrop ==
    /\ \E i \in 1..Len(gens) :
         gens' = SubSeq(gens, 1, i - 1) \o SubSeq(gens, i + 1, Len(gens))
    /\ UNCHANGED <<genlog, histVars, runVars, regVars, poolVars, concVars, codecVars, groupVars>>

\* No free_generator: every two Generators are made with no free in between.
NextGenNew == GenNew \/ GenDrop \/ Alloc
SpecGenNew == InitGenNew /\ [][NextGenNew]_vars

\* C11: a fresh Generator claims the smallest unused id of the pool, so any
\* two live Generators made by Generator::new on the same Global, with no
\* free in between, hold different ids.
C11_NewGeneratorsHoldDifferentIds ==
    \A i \in 1..Len(gens) : \A j \in 1..Len(gens) :
        i # j => gens[i].id # gens[j].id


(***************************************************************************)
(* Concurrent callers of Global.  Each operation is the sequence of steps  *)
(* it takes on the Mutexes of Global: a lock is taken when free and given  *)
(* back when the guard is dropped.                                         *)
(***************************************************************************)
Threads == {1, 2}
LockNames == {"thread_pool", "history", "gen"}
StepOf(act, lock) == [act |-> act, lock |-> lock]

\* pub const GENERATOR_CACHE_SIZE
GENERATOR_CACHE_SIZE == 200

\* Global::get_next_id: the guard lives to the end of the function.
get_next_id_steps ==
    <<StepOf("lock", "thread_pool"), StepOf("get_next_id", "thread_pool"),
      StepOf("unlock", "thread_pool")>>

alloc_new_generator_keeps_guard ==
    <<StepOf("lock", "thread_pool"), StepOf("get_next_id", "thread_pool"),
      StepOf("lock", "thread_pool"), StepOf("insert", "thread_pool"),
      StepOf("unlock", "thread_pool"), StepOf("unlock", "thread_pool")>>

\* Global::alloc_new_generator: get_next_id returns, then the pool is locked
\* again for the insert.
alloc_new_generator_steps ==
    get_next_id_steps \o
    <<StepOf("lock", "thread_pool"), StepOf("insert", "thread_pool"),
      StepOf("unlock", "thread_pool")>>

\* Global::free_generator
free_generator_steps ==
    <<StepOf("lock", "thread_pool"), StepOf("remove", "thread_pool"),
      StepOf("unlock", "thread_pool")>>

\* append-entry: the log is locked for the duration of one push.
append_entry_steps ==
    <<StepOf("lock", "history"), StepOf("push", "history"),
      StepOf("unlock", "history")>>

\* pull-batch: the raw generator is locked for the duration of one gen_n.
pull_batch_steps ==
    <<StepOf("lock", "gen"), StepOf("gen_n", "gen"), StepOf("unlock", "gen")>>

push_steps_clock_before_lock ==
    <<StepOf("timestamp", "history"), StepOf("lock", "history"),
      StepOf("append", "history"), StepOf("unlock", "history")>>

\* push_invoke / push_result / push_nemesis called on the locked log: the
\* item is built, with time: self.timestamp(global), and then pushed, all
\* under the caller's guard.
push_steps ==
    <<StepOf("lock", "history"), StepOf("timestamp", "history"),
      StepOf("append", "history"), StepOf("unlock", "history")>>
PushOps == {"push_invoke", "push_result", "push_nemesis"}

ConcOps == {"alloc", "free", "push", "pull"}
StepsOf(op) ==
    CASE op \in PushOps -> push_steps
      [] op = "alloc" -> alloc_new_generator_steps
      [] op = "free"  -> free_generator_steps
      [] op = "push"  -> append_entry_steps
      [] op = "pull"  -> pull_batch_steps
      [] OTHER        -> <<>>

\* The NodeHandle each thread passes to alloc_new_generator.
HandleOf(t) == IF t = 1 THEN "node-a" ELSE "node-b"

IdleThread == [op |-> "none", pc |-> 0, id |-> 0, arg |-> 0, held |-> {},
               overwrote |-> FALSE, done |-> 0]

InitConc ==
    /\ HistInit /\ RunIdle /\ RegIdle /\ PoolIdle
    /\ GenIdle /\ GroupIdle /\ CodecIdle
    /\ thr = [t \in Threads |-> IdleThread]
    /\ locks = [l \in LockNames |-> 0]
    /\ rawgen = 0

InOp(t) == thr[t].op # "none"
CurStep(t) == StepsOf(thr[t].op)[thr[t].pc]
\* The thread after its current step: idle again after the last one.
Advanced(t, rec) ==
    IF rec.pc = Len(StepsOf(rec.op))
    THEN [rec EXCEPT !.op = "none", !.pc = 0, !.done = @ + 1]
    ELSE [rec EXCEPT !.pc = @ + 1]

ConcFrame == UNCHANGED <<runVars, regVars, lastAlloc, genVars, groupVars, codecVars>>

\* Thread t begins an operation; it frees only ids it was given.
Start(t) ==
    /\ ~InOp(t)
    /\ thr[t].done < MaxOps
    /\ \E op \in ConcOps :
         \E arg \in IF op = "free" THEN thr[t].held ELSE {0} :
           thr' = [thr EXCEPT ![t] = [@ EXCEPT !.op = op, !.pc = 1, !.arg = arg]]
    /\ UNCHANGED <<histVars, thread_pool, locks, rawgen>>
    /\ ConcFrame

\* Mutex::lock: blocks while another guard is alive.
Lock(t) ==
    /\ InOp(t)
    /\ CurStep(t).act = "lock"
    /\ locks[CurStep(t).lock] = 0
    /\ locks' = [locks EXCEPT ![CurStep(t).lock] = t]
    /\ thr' = [thr EXCEPT ![t] = Advanced(t, @)]
    /\ UNCHANGED <<histVars, thread_pool, rawgen>>
    /\ ConcFrame

\* The guard is dropped.
Unlock(t) ==
    /\ InOp(t)
    /\ CurStep(t).act = "unlock"
    /\ locks' = [locks EXCEPT ![CurStep(t).lock] = 0]
    /\ thr' = [thr EXCEPT ![t] = Advanced(t, @)]
    /\ UNCHANGED <<histVars, thread_pool, rawgen>>
    /\ ConcFrame

\* The body of get_next_id, under the guard.
GetNextId(t) ==
    /\ InOp(t)
    /\ CurStep(t).act = "get_next_id"
    /\ thr' = [thr EXCEPT ![t] = Advanced(t, [@ EXCEPT !.id = get_next_id(thread_pool)])]
    /\ UNCHANGED <<histVars, thread_pool, locks, rawgen>>
    /\ ConcFrame

\* thread_pool.lock().insert(id, handle); the id is returned to the caller.
Insert(t) ==
    /\ InOp(t)
    /\ CurStep(t).act = "insert"
    /\ thread_pool' = MapInsert(thread_pool, thr[t].id, HandleOf(t))
    /\ thr' = [thr EXCEPT ![t] = Advanced(t,
                 [@ EXCEPT !.held = @ \cup {thr[t].id},
                           !.overwrote = @ \/ thr[t].id \in DOMAIN thread_pool])]
    /\ UNCHANGED <<histVars, locks, rawgen>>
    /\ ConcFrame

\* thread_pool.lock().remove(&id)
Remove(t) ==
    /\ InOp(t)
    /\ CurStep(t).act = "remove"
    /\ thread_pool' = free_generator(thread_pool, thr[t].arg)
    /\ thr' = [thr EXCEPT ![t] = Advanced(t, [@ EXCEPT !.held = @ \ {thr[t].arg}])]
    /\ UNCHANGED <<histVars, locks, rawgen>>
    /\ ConcFrame

\* One push on the locked log.
Push(t) ==
    /\ InOp(t)
    /\ CurStep(t).act = "push"
    /\ Applied(push_invoke(history, GlobalOf(now, start_time), t, OpWrite(1, 1)),
               Call("push_invoke", "Invoke", None))
    /\ thr' = [thr EXCEPT ![t] = Advanced(t, @)]
    /\ UNCHANGED <<thread_pool, locks, rawgen>>
    /\ ConcFrame

\* RawGenerator::gen_n(GENERATOR_CACHE_SIZE) on the locked raw generator.
GenN(t) ==
    /\ InOp(t)
    /\ CurStep(t).act = "gen_n"
    /\ rawgen' = rawgen + GENERATOR_CACHE_SIZE
    /\ thr' = [thr EXCEPT ![t] = Advanced(t, @)]
    /\ UNCHANGED <<histVars, thread_pool, locks>>
    /\ ConcFrame

NextConc ==
    \E t \in Threads :
        \/ Start(t) \/ Lock(t) \/ Unlock(t) \/ GetNextId(t)
        \/ Insert(t) \/ Remove(t) \/ Push(t) \/ GenN(t)
SpecConc == InitConc /\ [][NextConc]_vars

\* C12 as stated: allocating is one mutually exclusive operation: under
\* every interleaving no two callers hold the same id at the same time and
\* no allocation overwrites a handle that is in the pool.
C12_AllocationIsExclusive ==
    /\ \A t \in Threads : \A u \in Threads :
         t # u => thr[t].held \cap thr[u].held = {}
    /\ \A t \in Threads : ~thr[t].overwrote

\* C13: no operation holds more than one of the three locks at a time, and
\* no deadlock is reachable: a thread waiting for a lock waits for a thread
\* that is not itself waiting, and whenever some operation is under way one
\* of the threads under way can take its next step.
HeldBy(t) == {l \in LockNames : locks[l] = t}
Blocked(t) ==
    /\ InOp(t)
    /\ CurStep(t).act = "lock"
    /\ locks[CurStep(t).lock] # 0
C13_OneLockNoDeadlock ==
    /\ \A t \in Threads : Cardinality(HeldBy(t)) <= 1
    /\ \A t \in Threads :
         Blocked(t) => /\ locks[CurStep(t).lock] # t
                       /\ ~Blocked(locks[CurStep(t).lock])
    /\ (\E t \in Threads : InOp(t)) => \E t \in Threads : InOp(t) /\ ~Blocked(t)

\* One thread waits for the pool while the other holds it, after the log and
\* the raw generator have been used.
C13_Witness ==
    /\ \E t \in Threads : Blocked(t) /\ CurStep(t).lock = "thread_pool"
    /\ Len(history) >= 1
    /\ rawgen >= GENERATOR_CACHE_SIZE

(***************************************************************************)
(* SpecTime: concurrent tasks appending to the log of one Global while the *)
(* virtual clock advances.  A push is the steps of push_steps: the clock   *)
(* is read by timestamp() inside the push, after the log was locked.       *)
(***************************************************************************)
\* A task begins a push on the shared log.
StartPush(t) ==
    /\ ~InOp(t)
    /\ ~panicked
    /\ Len(history) + Cardinality({u \in Threads : InOp(u)}) < MaxHist
    /\ \E op \in PushOps :
         thr' = [thr EXCEPT ![t] = [@ EXCEPT !.op = op, !.pc = 1, !.arg = 0]]
    /\ UNCHANGED <<histVars, thread_pool, locks, rawgen>>
    /\ ConcFrame

\* SerializableHistoryList::timestamp: time::Instant::now() is read
Timestamp(t) ==
    /\ InOp(t)
    /\ CurStep(t).act = "timestamp"
    /\ thr' = [thr EXCEPT ![t] = Advanced(t, [@ EXCEPT !.arg = now])]
    /\ UNCHANGED <<histVars, thread_pool, locks, rawgen>>
    /\ ConcFrame

\* self.0.push(item): the item carries the clock reading of Timestamp
Append_(t) ==
    /\ InOp(t)
    /\ CurStep(t).act = "append"
    /\ LET global == GlobalOf(thr[t].arg, start_time) IN
       CASE thr[t].op = "push_invoke" ->
              Applied(push_invoke(history, global, t, OpWrite(1, 1)),
                      Call("push_invoke", "Invoke", None))
         [] thr[t].op = "push_result" ->
              Applied(push_result(history, global, t, "Ok", OpWrite(1, 1), None),
                      Call("push_result", "Ok", None))
         [] thr[t].op = "push_nemesis" ->
              Applied(push_nemesis(history, global, Execute(NemesisValue("Kill", {1}))),
                      Call("push_nemesis", "Info", None))
    /\ thr' = [thr EXCEPT ![t] = Advanced(t, @)]
    /\ UNCHANGED <<thread_pool, locks, rawgen>>
    /\ ConcFrame

NextTime ==
    \/ Tick
    \/ \E t \in Threads :
         StartPush(t) \/ Lock(t) \/ Timestamp(t) \/ Append_(t) \/ Unlock(t)
SpecTime == InitConc /\ [][NextTime]_vars

\* C34: read in index order, the time fields of the log never decrease;
\* every appended entry carries the clock reading minus the run's start
\* instant, read by the appending task while it holds the log.
C34_TimeNonDecreasing ==
    /\ [](\A i, j \in 1..Len(history) :
            i <= j => history[i].time <= history[j].time)
    /\ [][Len(history') > Len(history) =>
            \E t \in Threads :
                /\ locks["history"] = t
                /\ thr[t].arg <= now
                /\ history'[Len(history')].time = thr[t].arg - start_time]_vars

\* Both tasks and the nemesis appended, one entry by each push function,
\* and the clock advanced between the first and the last append.
C34_Witness ==
    /\ Len(history) = 3
    /\ history[1].time < history[3].time
    /\ {history[i].process : i \in 1..3} = {ProcessGen(1), ProcessGen(2), ProcessNemesis}
    /\ {pushedBy[i] : i \in 1..3} = PushOps


(***************************************************************************)
(* GeneratorGroup: merging Generators into one stream.  A member of the    *)
(* group is a Generator with its count; src (its place in the supplied     *)
(* collection) and pos (how many items it has given) are kept to tell      *)
(* where each item of the merged output came from.                         *)
(***************************************************************************)
\* RoundRobin(usize::MAX): no limit.  The model's largest integer stands
\* for it; no count of the model comes near it.
USIZE_MAX == 2147483647

Min(a, b) == IF a <= b THEN a ELSE b

generator_next_skips(g) ==
    IF g.seq = <<>>
    THEN [item |-> None, gen |-> g]
    ELSE [item |-> Some(Head(g.seq)),
          gen |-> [g EXCEPT !.seq = IF Len(@) >= 2 THEN Tail(Tail(@)) ELSE <<>>]]

\* Generator::next: the next item of the sequence, None once it has ended.
generator_next(g) ==
    IF g.seq = <<>>
    THEN [item |-> None, gen |-> g]
    ELSE [item |-> Some(Head(g.seq)), gen |-> [g EXCEPT !.seq = Tail(@)]]

next_with_id_of_first(g) ==
    LET r == generator_next(g) IN
      [out |-> IF IsNone(r.item) THEN None
               ELSE Some([item |-> Unwrap(r.item), id |-> 0]),
       gen |-> r.gen]

\* GeneratorIter::next_with_id: self.next().map(|x| (x, self.id()))
next_with_id(g) ==
    LET r == generator_next(g) IN
      [out |-> IF IsNone(r.item) THEN None
               ELSE Some([item |-> Unwrap(r.item), id |-> g.id]),
       gen |-> r.gen]

\* Generator::once: a Generator of the single item.
generator_once(id, global, item) == Generator(id, global, <<item>>)

Member(gen, quota, src) == [gen |-> gen, quota |-> quota, src |-> src, pos |-> 0]
Chain == [kind |-> "Chain", limit |-> USIZE_MAX]
RoundRobin(limit) == [kind |-> "RoundRobin", limit |-> limit]

\* GeneratorGroup::new_with_count([(g, count), ...]); the strategy is set by
\* with_strategy.
new_with_count(gs, counts) ==
    [gens |-> [k \in 1..Len(gs) |-> Member(gs[k], counts[k], k)],
     strategy |-> Chain, emitted |-> 0, weighted |-> TRUE]
\* GeneratorGroup::new([g, ...]): no member has a count.
group_new(gs) ==
    [new_with_count(gs, [k \in 1..Len(gs) |-> USIZE_MAX]) EXCEPT !.weighted = FALSE]
with_strategy(grp, st) == [grp EXCEPT !.strategy = st]

\* What one call of the merged stream gives: the item with the id of its
\* Generator (src and pos told along), and the group after the call.
Emission(m, pair) ==
    [item |-> pair.item, id |-> pair.id, src |-> m.src, pos |-> m.pos + 1]
Taken(m, r) == [m EXCEPT !.gen = r.gen, !.pos = @ + 1, !.quota = @ - 1]

RECURSIVE chain_next_last_first(_)
chain_next_last_first(grp) ==
    IF grp.gens = <<>>
    THEN [out |-> None, group |-> grp]
    ELSE LET n == Len(grp.gens)
             m == grp.gens[n]
             r == next_with_id(m.gen) IN
           IF IsNone(r.out)
           THEN chain_next_last_first([grp EXCEPT !.gens = SubSeq(@, 1, n - 1)])
           ELSE [out |-> Some(Emission(m, Unwrap(r.out))),
                 group |-> [grp EXCEPT !.gens = SubSeq(@, 1, n - 1) \o <<Taken(m, r)>>,
                                       !.emitted = @ + 1]]

\* Chain: the first Generator left is drained before the next one is
\* looked at.
RECURSIVE chain_next(_)
chain_next(grp) ==
    IF grp.gens = <<>>
    THEN [out |-> None, group |-> grp]
    ELSE LET m == Head(grp.gens)
             r == next_with_id(m.gen) IN
           IF IsNone(r.out)
           THEN chain_next([grp EXCEPT !.gens = Tail(@)])
           ELSE [out |-> Some(Emission(m, Unwrap(r.out))),
                 group |-> [grp EXCEPT !.gens = <<Taken(m, r)>> \o Tail(@),
                                       !.emitted = @ + 1]]

RECURSIVE round_robin_next_no_limit(_)
round_robin_next_no_limit(grp) ==
    IF grp.gens = <<>>
    THEN [out |-> None, group |-> grp]
    ELSE LET m == Head(grp.gens)
             r == next_with_id(m.gen) IN
           IF m.quota = 0 \/ IsNone(r.out)
           THEN round_robin_next_no_limit([grp EXCEPT !.gens = Tail(@)])
           ELSE [out |-> Some(Emission(m, Unwrap(r.out))),
                 group |-> [grp EXCEPT
                              !.gens = IF Taken(m, r).quota = 0 THEN Tail(@)
                                       ELSE Tail(@) \o <<Taken(m, r)>>,
                              !.emitted = @ + 1]]

RECURSIVE round_robin_next_keeps_turn(_)
round_robin_next_keeps_turn(grp) ==
    IF grp.emitted >= grp.strategy.limit \/ grp.gens = <<>>
    THEN [out |-> None, group |-> grp]
    ELSE LET m == Head(grp.gens)
             r == next_with_id(m.gen) IN
           IF m.quota = 0 \/ IsNone(r.out)
           THEN round_robin_next_keeps_turn([grp EXCEPT !.gens = Tail(@)])
           ELSE [out |-> Some(Emission(m, Unwrap(r.out))),
                 group |-> [grp EXCEPT
                              !.gens = IF Taken(m, r).quota = 0 THEN Tail(@)
                                       ELSE <<Taken(m, r)>> \o Tail(@),
                              !.emitted = @ + 1]]

RECURSIVE round_robin_next_ignores_count(_)
round_robin_next_ignores_count(grp) ==
    IF grp.emitted >= grp.strategy.limit \/ grp.gens = <<>>
    THEN [out |-> None, group |-> grp]
    ELSE LET m == Head(grp.gens)
             r == next_with_id(m.gen) IN
           IF IsNone(r.out)
           THEN round_robin_next_ignores_count([grp EXCEPT !.gens = Tail(@)])
           ELSE [out |-> Some(Emission(m, Unwrap(r.out))),
                 group |-> [grp EXCEPT !.gens = Tail(@) \o <<Taken(m, r)>>,
                                       !.emitted = @ + 1]]

\* RoundRobin(limit): nothing once limit items were given; otherwise the
\* Generator whose turn it is gives one item and goes to the back of the
\* rotation; a Generator that has ended, or whose count is used up, leaves
\* the rotation and the turn passes on at once.
RECURSIVE round_robin_next(_)
round_robin_next(grp) ==
    IF grp.emitted >= grp.strategy.limit \/ grp.gens = <<>>
    THEN [out |-> None, group |-> grp]
    ELSE LET m == Head(grp.gens)
             r == next_with_id(m.gen) IN
           IF m.quota = 0 \/ IsNone(r.out)
           THEN round_robin_next([grp EXCEPT !.gens = Tail(@)])
           ELSE [out |-> Some(Emission(m, Unwrap(r.out))),
                 group |-> [grp EXCEPT
                              !.gens = IF Taken(m, r).quota = 0 THEN Tail(@)
                                       ELSE Tail(@) \o <<Taken(m, r)>>,
                              !.emitted = @ + 1]]

\* The next item of the merged stream, under the strategy of the group.
merged_next(grp) ==
    IF grp.strategy.kind = "Chain" THEN chain_next(grp) ELSE round_robin_next(grp)

\* DelayAsyncIter::get_without_delay of the group: the item and its delay.
get_without_delay(grp) ==
    LET r == merged_next(grp) IN
      [out |-> IF IsNone(r.out) THEN None
               ELSE Some([item |-> Unwrap(r.out), delay |-> "delay"]),
       group |-> r.group]

\* One turn of the loop of collect: push the item, or leave the loop.
collect_step(items, x) ==
    IF IsSome(x) THEN [items |-> Append(items, Unwrap(x).item), done |-> FALSE]
    ELSE [items |-> items, done |-> TRUE]

collect_all_step_never_done(items, x) ==
    IF IsSome(x) THEN [items |-> Append(items, Unwrap(x)), done |-> FALSE]
    ELSE [items |-> items, done |-> FALSE]

\* One turn of the loop of collect_all: push (item, delay), or leave.
collect_all_step(items, x) ==
    IF IsSome(x) THEN [items |-> Append(items, Unwrap(x)), done |-> FALSE]
    ELSE [items |-> items, done |-> TRUE]

\* The sequences merged: the spec's scenarios ([10,20,30] grows with the
\* bound) and a single item.
GroupSeqs ==
    {<<>>, <<1, 2, 3>>, <<4, 5>>, generator_once(0, GLOBAL, 9).seq,
     [i \in 1..MaxSeqLen |-> 10 * i]}
\* The counts given to new_with_count.
Counts == {0, 1, MaxQuota}
WithIds(qs) == [k \in 1..Len(qs) |-> generator_new_with_id(k - 1, GLOBAL, qs[k])]
Limits == (0..MaxLimit) \cup {USIZE_MAX}
GroupStrategies(weighted) ==
    {RoundRobin(l) : l \in Limits} \cup (IF weighted THEN {} ELSE {Chain})

\* A group built by new or by new_with_count, then with_strategy; it is
\* drained by collect or by collect_all.
InitGroup ==
    /\ HistInit /\ RunIdle /\ RegIdle /\ PoolIdle /\ GenIdle /\ ConcIdle /\ CodecIdle
    /\ \E n \in 0..MaxGroup : \E qs \in [1..n -> GroupSeqs] :
         \/ \E st \in GroupStrategies(FALSE) :
              group = with_strategy(group_new(WithIds(qs)), st)
         \/ \E c \in [1..n -> Counts] : \E st \in GroupStrategies(TRUE) :
              group = with_strategy(new_with_count(WithIds(qs), c), st)
    /\ \E mode \in {"collect", "collect_all"} : ginit = [group |-> group, mode |-> mode]
    /\ output = <<>>
    /\ gdone = FALSE

GroupFrame == UNCHANGED <<histVars, runVars, regVars, poolVars, genVars, concVars, codecVars, ginit>>

\* group.collect(): one turn of its loop.
Collect ==
    /\ ginit.mode = "collect"
    /\ ~gdone
    /\ LET r == get_without_delay(group)
           c == collect_step(output, r.out) IN
         /\ group' = r.group
         /\ output' = c.items
         /\ gdone' = c.done
    /\ GroupFrame

\* group.collect_all(): one turn of its loop.
CollectAll ==
    /\ ginit.mode = "collect_all"
    /\ ~gdone
    /\ LET r == get_without_delay(group)
           c == collect_all_step(output, r.out) IN
         /\ group' = r.group
         /\ output' = c.items
         /\ gdone' = c.done
    /\ GroupFrame

NextGroup == Collect \/ CollectAll
SpecGroup == InitGroup /\ [][NextGroup]_vars
\* The task that collects is scheduled until its loop ends.
SpecGroupFair == SpecGroup /\ WF_vars(Collect) /\ WF_vars(CollectAll)

\* The merged output, as the emissions behind the collected items.
Emitted ==
    [i \in 1..Len(output) |->
       IF ginit.mode = "collect_all" THEN output[i].item ELSE output[i]]
MergedItems == [i \in 1..Len(output) |-> Emitted[i].item]
Supplied == ginit.group.gens
SeqOf(k) == Supplied[k].gen.seq
\* The items Generator k can give: its sequence, up to its count.
Avail(k) == Min(Len(SeqOf(k)), Supplied[k].quota)
CountOf(k) == Cardinality({i \in 1..Len(output) : Emitted[i].src = k})
IsPrefix(s, t) == Len(s) <= Len(t) /\ s = SubSeq(t, 1, Len(s))
IsChain == ginit.group.strategy.kind = "Chain"
IsRoundRobin == ginit.group.strategy.kind = "RoundRobin"
SeqsAre(qs) ==
    /\ Len(Supplied) = Len(qs)
    /\ \A k \in 1..Len(qs) : SeqOf(k) = qs[k]

RECURSIVE Concat(_)
Concat(k) ==
    IF k > Len(Supplied) THEN <<>>
    ELSE [i \in 1..Len(SeqOf(k)) |-> [item |-> SeqOf(k)[i], src |-> k]] \o Concat(k + 1)
Origin == [i \in 1..Len(output) |-> [item |-> Emitted[i].item, src |-> Emitted[i].src]]

\* C14: under Chain the merged output is the concatenation of the
\* Generators' sequences in the order supplied, so Generator k+1 gives
\* nothing before Generator k is drained; [1,2,3] and [4,5] collect to
\* [1,2,3,4,5], and two items followed by a once-Generator to the two items
\* and then the single one.
C14_ChainConcatenates ==
    IsChain =>
      /\ IsPrefix(Origin, Concat(1))
      /\ gdone => Origin = Concat(1)
      /\ (gdone /\ SeqsAre(<<<<1, 2, 3>>, <<4, 5>>>>)) => MergedItems = <<1, 2, 3, 4, 5>>
      /\ (gdone /\ SeqsAre(<<<<4, 5>>, <<9>>>>)) => MergedItems = <<4, 5, 9>>
C14_Witness ==
    /\ IsChain /\ gdone
    /\ SeqsAre(<<<<1, 2, 3>>, <<4, 5>>>>)
    /\ MergedItems = <<1, 2, 3, 4, 5>>


\* The turns of RoundRobin when nothing limits it: in cycle c every
\* Generator that can still give its c-th item gives it, in the order
\* supplied.
Round(c) ==
    SelectSeq([k \in 1..Len(Supplied) |-> [src |-> k, pos |-> c]],
              LAMBDA e : Avail(e.src) >= c)
RECURSIVE Rounds(_)
Rounds(c) ==
    IF \A k \in 1..Len(Supplied) : Avail(k) < c THEN <<>>
    ELSE Round(c) \o Rounds(c + 1)
Turns == [i \in 1..Len(output) |-> [src |-> Emitted[i].src, pos |-> Emitted[i].pos]]
Limit == ginit.group.strategy.limit
RECURSIVE TotalAvail(_)
TotalAvail(k) == IF k > Len(Supplied) THEN 0 ELSE Avail(k) + TotalAvail(k + 1)

C15_WitnessExhausted ==
    /\ IsRoundRobin /\ gdone /\ ~ginit.group.weighted /\ Limit = USIZE_MAX
    /\ SeqsAre(<<<<4, 5>>, <<1, 2, 3>>>>)
    /\ MergedItems = <<4, 1, 5, 2, 3>>

\* C16: under RoundRobin(limit) the merged stream gives at most limit items
\* in all, and exactly min(limit, items available from all Generators);
\* with limit 0 it gives nothing.
C16_RoundRobinLimit ==
    IsRoundRobin =>
      /\ Len(output) <= Limit
      /\ gdone => Len(output) = Min(Limit, TotalAvail(1))
      /\ Limit = 0 => output = <<>>
C16_Witness ==
    /\ IsRoundRobin /\ gdone
    /\ Limit >= 1 /\ Limit < TotalAvail(1)
    /\ Len(output) = Limit

\* C17 as stated: in a weighted group under RoundRobin every Generator
\* gives exactly its count of items, whatever the length of its sequence.
C17_ExactlyQuota ==
    (IsRoundRobin /\ ginit.group.weighted /\ gdone) =>
      \A k \in 1..Len(Supplied) : CountOf(k) = Supplied[k].quota

\* C17 amended: in a weighted group under RoundRobin no Generator gives
\* more than its count; a Generator whose count is used up is out of the
\* rotation even if its sequence has not ended; and when the limit does not
\* cut the stream short, a Generator has given min(count, length of its
\* sequence) items at the end: its count when its sequence is long enough.
C17_QuotaCapsContribution ==
    (IsRoundRobin /\ ginit.group.weighted) =>
      \A k \in 1..Len(Supplied) :
        /\ CountOf(k) <= Supplied[k].quota
        /\ (CountOf(k) = Supplied[k].quota /\ CountOf(k) >= 1)
             => \A j \in 1..Len(group.gens) : group.gens[j].src # k
        /\ (gdone /\ Limit >= TotalAvail(1)) => CountOf(k) = Avail(k)
C17_Witness ==
    /\ IsRoundRobin /\ ginit.group.weighted /\ gdone
    /\ \E k \in 1..Len(Supplied) :
         /\ Supplied[k].quota >= 1
         /\ Len(SeqOf(k)) > Supplied[k].quota
         /\ CountOf(k) = Supplied[k].quota
    /\ \E k \in 1..Len(Supplied) :
         /\ Len(SeqOf(k)) < Supplied[k].quota
         /\ CountOf(k) = Len(SeqOf(k))

\* The stop condition of the strategy: every Generator drained under
\* Chain; under RoundRobin every Generator exhausted or retired by its
\* count, or limit items given.
StopCondition ==
    \/ \A k \in 1..Len(Supplied) :
         CountOf(k) = IF IsChain THEN Len(SeqOf(k)) ELSE Avail(k)
    \/ IsRoundRobin /\ Len(output) = Limit

\* C18: the merged stream ends and collect / collect_all return, once the
\* stop condition of the strategy is met.
C18_CollectTerminates == <>(gdone /\ StopCondition)
C18_Witness ==
    /\ gdone /\ StopCondition
    /\ ginit.mode = "collect_all"
    /\ Len(output) >= 2

\* C19: under either strategy the items of one Generator come out in the
\* order of its own sequence, each once and none skipped.
C19_PerGeneratorOrder ==
    \A i \in 1..Len(output) :
      /\ Emitted[i].pos = Cardinality({j \in 1..i : Emitted[j].src = Emitted[i].src})
      /\ Emitted[i].pos <= Len(SeqOf(Emitted[i].src))
      /\ Emitted[i].item = SeqOf(Emitted[i].src)[Emitted[i].pos]
C19_Witness ==
    /\ gdone /\ IsRoundRobin
    /\ Len(Supplied) = 2
    /\ CountOf(1) >= 2 /\ CountOf(2) >= 2
    /\ SeqOf(1) # SeqOf(2)


(***************************************************************************)
(* The run loop fed by a GeneratorGroup: the loop pulls (item, id) from    *)
(* the merged stream and the process of that id records the invocation     *)
(* and the result.                                                         *)
(***************************************************************************)
\* Two Generators sharing the items 1..MaxGroup of the raw generator, with
\* different ids, merged by new under Chain or RoundRobin(usize::MAX).
InitRunGroup ==
    /\ HistInit /\ RegIdle /\ PoolIdle /\ GenIdle /\ ConcIdle /\ CodecIdle
    /\ \E k \in 0..MaxGroup : \E first \in Processes :
       \E st \in {Chain, RoundRobin(USIZE_MAX)} :
         group = with_strategy(
                   group_new(<<generator_new_with_id(first, GLOBAL, [i \in 1..k |-> i]),
                               generator_new_with_id(1 - first, GLOBAL,
                                   [i \in 1..(MaxGroup - k) |-> k + i])>>),
                   st)
    /\ ginit = [group |-> group, mode |-> "run"]
    /\ output = <<>>
    /\ gdone = FALSE
    /\ stream = <<>>
    /\ pulled = <<>>
    /\ task = [p \in Processes |-> IdleTask]
    /\ hitem = <<>>
    /\ clientCalls = [n \in 1..MaxItems |-> 0]

\* The loop asks the merged stream for its next (item, id); the stream has
\* ended when it gives None.
Pull ==
    /\ ~panicked
    /\ ~gdone
    /\ stream = <<>>
    /\ LET r == merged_next(group) IN
         /\ group' = r.group
         /\ gdone' = IsNone(r.out)
         /\ output' = IF IsNone(r.out) THEN output ELSE Append(output, Unwrap(r.out))
         /\ stream' = IF IsNone(r.out) THEN stream
                      ELSE <<[item |-> Len(output) + 1,
                              op |-> OpOfItem(Unwrap(r.out).item),
                              id |-> Unwrap(r.out).id]>>
    /\ UNCHANGED <<histVars, task, hitem, clientCalls, pulled, regVars, poolVars,
                   genVars, concVars, codecVars, ginit>>

NextRunGroup ==
    \/ Tick
    \/ Pull
    \/ Dispatch
    \/ \E p \in Processes : ClientCall(p)
    \/ \E p \in Processes : Complete(p)
SpecRunGroup == InitRunGroup /\ [][NextRunGroup]_vars

Fns == {"add2", "double"}
ApplyFn(f, x) == IF f = "add2" THEN x + 2 ELSE 2 * x
Preds == {"mod3", "odd"}
Holds(p, x) == IF p = "mod3" THEN x % 3 = 0 ELSE x % 2 = 1

\* StreamExt::map, StreamExt::filter
stream_map(seq, f) == [i \in 1..Len(seq) |-> ApplyFn(f, seq[i])]
stream_filter(seq, p) == SelectSeq(seq, LAMBDA x : Holds(p, x))
\* StreamExt::take: items are passed on while the count lasts.
RECURSIVE stream_take(_, _)
stream_take(seq, n) ==
    IF n = 0 \/ seq = <<>> THEN <<>>
    ELSE <<Head(seq)>> \o stream_take(Tail(seq), n - 1)

RECURSIVE stream_split_at_one_more(_, _)
stream_split_at_one_more(seq, n) ==
    IF seq = <<>> THEN [buffer |-> <<>>, rest |-> seq]
    ELSE IF n = 0 THEN [buffer |-> <<Head(seq)>>, rest |-> Tail(seq)]
    ELSE LET r == stream_split_at_one_more(Tail(seq), n - 1) IN
           [buffer |-> <<Head(seq)>> \o r.buffer, rest |-> r.rest]

\* ExtraStreamExt::split_at: up to n times, the next item is pushed to the
\* buffer; the loop breaks when the stream has ended.
RECURSIVE stream_split_at(_, _)
stream_split_at(seq, n) ==
    IF n = 0 \/ seq = <<>> THEN [buffer |-> <<>>, rest |-> seq]
    ELSE LET r == stream_split_at(Tail(seq), n - 1) IN
           [buffer |-> <<Head(seq)>> \o r.buffer, rest |-> r.rest]

\* Generator::new_with_pined_seq
generator_new_with_pined_seq(id, global, seq) == Generator(id, global, seq)

generator_map_fresh_id(pool, g, f) ==
    generator_new(g.global, pool, stream_map(g.seq, f))

\* Generator::map (pool: the id pool of the Global, which map never reads)
generator_map(pool, g, f) ==
    generator_new_with_id(g.id, g.global, stream_map(g.seq, f))

generator_filter_negated(g, p) ==
    generator_new_with_id(g.id, g.global,
                          SelectSeq(g.seq, LAMBDA x : ~Holds(p, x)))

\* Generator::filter
generator_filter(g, p) ==
    generator_new_with_id(g.id, g.global, stream_filter(g.seq, p))

generator_take_one_more(g, n) ==
    generator_new_with_id(g.id, g.global, stream_take(g.seq, n + 1))

\* Generator::take
generator_take(g, n) ==
    generator_new_with_id(g.id, g.global, stream_take(g.seq, n))

\* Generator::split_at: the head made of the buffer, the tail of the rest.
generator_split_at(g, n) ==
    LET first == stream_split_at(g.seq, n) IN
      <<generator_new_with_id(g.id, g.global, first.buffer),
        generator_new_with_pined_seq(g.id, g.global, first.rest)>>

\* The source sequences (take_seq(k) of the raw generator 1.., and one with
\* a repeated item), and the arguments of take and split_at.
Sources == {[i \in 1..k |-> i] : k \in {0, 5, MaxSrc}} \cup {<<4, 1, 4>>}
SplitTakeArgs == {0, 3, 5} \cup {MaxTake}
Globals == {GLOBAL, GLOBAL + 1}

OpMap(f)     == [op |-> "map", f |-> f, n |-> 0]
OpFilter(p)  == [op |-> "filter", f |-> p, n |-> 0]
OpTake(n)    == [op |-> "take", f |-> "", n |-> n]
OpSplitAt(n) == [op |-> "split_at", f |-> "", n |-> n]

\* A Generator made by Generator::new on a Global whose pool is empty; the
\* pool is empty still, or id 0 has been allocated since.
InitGen ==
    /\ HistInit /\ RunIdle /\ RegIdle /\ ConcIdle /\ CodecIdle /\ GroupIdle
    /\ lastAlloc = None
    /\ \E global \in Globals : \E seq \in Sources :
         /\ gens = <<generator_new(global, <<>>, seq)>>
         /\ thread_pool = IF global = GLOBAL THEN <<>>
                          ELSE alloc_new_generator(<<>>, "node-a").pool
    /\ genlog = [source |-> gens[1], pipe |-> <<>>, before |-> gens[1],
                 pulled |-> <<>>, ended |-> FALSE]

GenFrame == UNCHANGED <<histVars, runVars, regVars, poolVars, concVars, codecVars, groupVars>>
\* The Generator is transformed before anything is pulled from it.
Fresh ==
    /\ Len(gens) = 1
    /\ Len(genlog.pipe) < MaxPipe
    /\ genlog.pulled = <<>>
    /\ ~genlog.ended
Logged(op) == genlog' = [genlog EXCEPT !.pipe = Append(@, op), !.before = gens[1]]

Map ==
    /\ Fresh
    /\ \E f \in Fns :
         /\ gens' = <<generator_map(thread_pool, gens[1], f)>>
         /\ Logged(OpMap(f))
    /\ GenFrame

Filter ==
    /\ Fresh
    /\ \E p \in Preds :
         /\ gens' = <<generator_filter(gens[1], p)>>
         /\ Logged(OpFilter(p))
    /\ GenFrame

Take ==
    /\ Fresh
    /\ \E n \in SplitTakeArgs :
         /\ gens' = <<generator_take(gens[1], n)>>
         /\ Logged(OpTake(n))
    /\ GenFrame

SplitAt ==
    /\ Fresh
    /\ \E n \in SplitTakeArgs :
         /\ gens' = generator_split_at(gens[1], n)
         /\ Logged(OpSplitAt(n))
    /\ GenFrame

\* gen.next(): the item is handed to the caller, or the end is signalled.
Next_ ==
    /\ Len(gens) = 1
    /\ ~genlog.ended
    /\ LET r == generator_next(gens[1]) IN
         /\ gens' = <<r.gen>>
         /\ genlog' = IF IsNone(r.item) THEN [genlog EXCEPT !.ended = TRUE]
                      ELSE [genlog EXCEPT !.pulled = Append(@, Unwrap(r.item))]
    /\ GenFrame

NextGen == Map \/ Filter \/ Take \/ SplitAt \/ Next_
SpecGen == InitGen /\ [][NextGen]_vars

LastOp == genlog.pipe[Len(genlog.pipe)]
\* All the Generator yields: what was pulled and what its sequence holds.
Yields == genlog.pulled \o gens[1].seq

\* C21: split_at(n) returns a head holding the first min(n, len) items in
\* order and a tail holding the remaining items in order, so head followed
\* by tail is the original sequence; [1,2,3,4,5] at 3 gives [1,2,3] and
\* [4,5]; both keep the id and the Global of the original.
C21_SplitAtHeadTail ==
    (genlog.pipe # <<>> /\ LastOp.op = "split_at") =>
      LET b == genlog.before
          head == gens[1]
          tail == gens[2] IN
        /\ Len(gens) = 2
        /\ Len(head.seq) = Min(LastOp.n, Len(b.seq))
        /\ head.seq \o tail.seq = b.seq
        /\ head.id = b.id /\ tail.id = b.id
        /\ head.global = b.global /\ tail.global = b.global
        /\ (b.seq = <<1, 2, 3, 4, 5>> /\ LastOp.n = 3)
             => (head.seq = <<1, 2, 3>> /\ tail.seq = <<4, 5>>)
C21_Witness ==
    /\ genlog.pipe = <<OpSplitAt(3)>>
    /\ genlog.source.seq = <<1, 2, 3, 4, 5>>
    /\ gens[1].seq = <<1, 2, 3>> /\ gens[2].seq = <<4, 5>>

\* The source positions whose mapped item passes the filter, the number of
\* them up to position i, and the items expected of map f, filter p, take n.
Passing(src, f, p) == {i \in 1..Len(src) : Holds(p, ApplyFn(f, src[i]))}
RankOf(src, f, p, i) == Cardinality({j \in Passing(src, f, p) : j <= i})
Expected(src, f, p, n) ==
    [k \in 1..Min(n, Cardinality(Passing(src, f, p))) |->
       ApplyFn(f, src[CHOOSE i \in Passing(src, f, p) : RankOf(src, f, p, i) = k])]

\* C22: map(f) then filter(p) then take(n) yields, in source order, f(x) for
\* the first n source items x with p(f(x)); source 1,2,3,... with x+2,
\* x%3==0 and take 5 gives [3,6,9,12,15].
C22_MapFilterTake ==
    (/\ Len(genlog.pipe) = 3
     /\ genlog.pipe[1].op = "map" /\ genlog.pipe[2].op = "filter"
     /\ genlog.pipe[3].op = "take") =>
      /\ Yields = Expected(genlog.source.seq, genlog.pipe[1].f,
                           genlog.pipe[2].f, genlog.pipe[3].n)
      /\ (genlog.source.seq = [i \in 1..MaxSrc |-> i]
            /\ genlog.pipe = <<OpMap("add2"), OpFilter("mod3"), OpTake(5)>>)
           => Yields = <<3, 6, 9, 12, 15>>
C22_Witness ==
    /\ genlog.pipe = <<OpMap("add2"), OpFilter("mod3"), OpTake(5)>>
    /\ genlog.source.seq = [i \in 1..MaxSrc |-> i]
    /\ genlog.pulled = <<3, 6, 9, 12, 15>>
    /\ genlog.ended

\* C23: map, filter and take return a Generator with the id and the Global
\* of the Generator they were applied to, and leave the id pool as it was.
C23_TransformKeepsIdentity ==
    [][(/\ Len(genlog'.pipe) = Len(genlog.pipe) + 1
        /\ genlog'.pipe[Len(genlog'.pipe)].op \in {"map", "filter", "take"})
       => /\ Len(gens') = 1
          /\ gens'[1].id = gens[1].id
          /\ gens'[1].global = gens[1].global
          /\ thread_pool' = thread_pool]_vars
\* All three were applied on a Global whose pool holds id 0.
C23_Witness ==
    /\ {genlog.pipe[i].op : i \in 1..Len(genlog.pipe)} = {"map", "filter", "take"}
    /\ DOMAIN thread_pool = {0}
    /\ gens[1].id = 0 /\ gens[1].global = GLOBAL + 1

\* C24: take(n) yields the first min(n, len) items of the underlying
\* sequence in order and then signals the end; never more than n items.
C24_TakeBounds ==
    (genlog.pipe # <<>> /\ LastOp.op = "take") =>
      LET b == genlog.before.seq IN
        /\ Len(Yields) = Min(LastOp.n, Len(b))
        /\ \A i \in 1..Len(Yields) : Yields[i] = b[i]
        /\ Len(genlog.pulled) <= LastOp.n
        /\ gens[1].seq = <<>> => IsNone(generator_next(gens[1]).item)
        /\ genlog.ended => genlog.pulled = Yields
C24_Witness ==
    /\ genlog.pipe # <<>> /\ LastOp = OpTake(MaxTake)
    /\ Len(genlog.before.seq) > MaxTake
    /\ Len(genlog.pulled) = MaxTake
    /\ genlog.ended


(***************************************************************************)
(* Generator::next as the run loop awaits it, and its cancellation: the    *)
(* future of next() is dropped with the Generator.                         *)
(***************************************************************************)
next_steps_pull_first == <<"pull", "delay">>

\* Generator::next: self.delay_strategy.delay().await; self.seq.next().await
next_steps == <<"delay", "pull">>

InitCancel ==
    /\ HistInit /\ RegIdle /\ PoolIdle /\ ConcIdle /\ CodecIdle /\ GroupIdle
    /\ stream = <<>>
    /\ task = <<>>
    /\ hitem = <<>>
    /\ clientCalls = <<>>
    /\ pulled = <<>>
    /\ \E global \in Globals : \E seq \in Sources :
         gens = <<generator_new(global, <<>>, seq)>>
    /\ genlog = [source |-> gens[1], pc |-> 0, held |-> None, ended |-> FALSE,
                 dropped |-> FALSE, droppedIn |-> "none"]

CancelFrame == UNCHANGED <<stream, task, clientCalls, regVars, poolVars, concVars, codecVars, groupVars>>
Alive == ~genlog.dropped /\ ~genlog.ended /\ ~panicked
InNext == genlog.pc >= 1
\* What next() gives when its last step is done: with an item the loop
\* records the invocation by the Generator's process; None ends the loop.
Returned(item) ==
    IF IsNone(item)
    THEN /\ genlog' = [genlog EXCEPT !.pc = 0, !.held = None, !.ended = TRUE]
         /\ UNCHANGED <<histVars, hitem, pulled>>
    ELSE /\ genlog' = [genlog EXCEPT !.pc = 0, !.held = None]
         /\ pulled' = Append(pulled, [item |-> Len(pulled) + 1,
                                      op |-> OpOfItem(Unwrap(item)),
                                      id |-> gens[1].id])
         /\ Applied(push_invoke(history, GlobalOf(now, start_time), gens[1].id,
                                OpOfItem(Unwrap(item))),
                    Call("push_invoke", "Invoke", None))
         /\ Tagged(Len(pulled) + 1)

\* The loop calls gen.next() and awaits it.
NextCall ==
    /\ Alive /\ ~InNext
    /\ genlog' = [genlog EXCEPT !.pc = 1]
    /\ UNCHANGED <<histVars, hitem, pulled, gens>>
    /\ CancelFrame

\* The pacing delay has elapsed.
DelayElapsed ==
    /\ Alive /\ InNext
    /\ next_steps[genlog.pc] = "delay"
    /\ IF genlog.pc = Len(next_steps)
       THEN Returned(genlog.held)
       ELSE /\ genlog' = [genlog EXCEPT !.pc = @ + 1]
            /\ UNCHANGED <<histVars, hitem, pulled>>
    /\ UNCHANGED gens
    /\ CancelFrame

\* self.seq.next(): the item leaves the sequence.
PullItem ==
    /\ Alive /\ InNext
    /\ next_steps[genlog.pc] = "pull"
    /\ LET r == generator_next(gens[1]) IN
         /\ gens' = <<r.gen>>
         /\ IF genlog.pc = Len(next_steps)
            THEN Returned(r.item)
            ELSE /\ genlog' = [genlog EXCEPT !.pc = @ + 1, !.held = r.item]
                 /\ UNCHANGED <<histVars, hitem, pulled>>
    /\ CancelFrame

\* The Generator is dropped, and with it the future of a pending next().
DropGenerator ==
    /\ Alive
    /\ genlog' = [genlog EXCEPT !.dropped = TRUE,
                    !.droppedIn = IF InNext THEN next_steps[genlog.pc] ELSE "none"]
    /\ UNCHANGED <<histVars, hitem, pulled, gens>>
    /\ CancelFrame

NextCancel == NextCall \/ DelayElapsed \/ PullItem \/ DropGenerator
SpecCancel == InitCancel /\ [][NextCancel]_vars

PulledItems == [i \in 1..Len(pulled) |-> genlog.source.seq[i]]
NemesisTypes ==
    {NemesisValue("Noop", {}), NemesisValue("Kill", {1, 2}), NemesisValue("Pause", {1}),
     NemesisValue("SplitOne", {1}), NemesisValue("PartitionHalves", {1, 2}),
     NemesisValue("PartitionRandomN", {2}),
     NemesisValue("PartitionMajoritiesRing", {}),
     NemesisValue("PartitionLeaderAndMajority", {}),
     NemesisValue("LeaderSendToMajorityButCannotReceive", {})}
NemesisRecords ==
    {NemesisValue("Noop", {}), NemesisValue("Kill", {1, 2}), NemesisValue("Pause", {1}),
     NemesisValue("Net", {1})}
AllNemesis == {Execute(n) : n \in NemesisTypes} \cup {Recover(n) : n \in NemesisRecords}

CallNemesis(value) ==
    [fn |-> "push_nemesis", type_ |-> "Info", error |-> None, value |-> value]

InitNem == HistInit /\ RunIdle /\ RegIdle /\ PoolIdle /\ AuxIdle

\* history.push_nemesis(&global, value)
PushAllNemesis ==
    /\ ~panicked
    /\ Len(history) < MaxHist
    /\ \E value \in AllNemesis :
         Applied(push_nemesis(history, GlobalOf(now, start_time), value),
                 CallNemesis(value))
    /\ UNCHANGED <<runVars, regVars, poolVars, auxVars>>

NextNem == Tick \/ PushAllNemesis
SpecNem == InitNem /\ [][NextNem]_vars

IsNemesisCall == lastCall'.fn = "push_nemesis" /\ now' = now

\* C27: no history entry records a Noop nemesis: push_nemesis given
\* Execute(Noop) or Recover(Noop) fails fatally before inserting and leaves
\* the log unchanged.
C27_NoopNeverRecorded ==
    /\ [](\A i \in 1..Len(history) :
            history[i].value.kind = "String" => history[i].value.text[2] # "Noop")
    /\ [][(IsNemesisCall /\ lastCall'.value.n.variant = "Noop")
            => (panicked' /\ history' = history)]_vars
C27_Witness ==
    /\ panicked
    /\ lastCall.fn = "push_nemesis"
    /\ lastCall.value = Recover(NemesisValue("Noop", {}))
    /\ Len(history) >= 1

\* The classification of a fault, as the claim states it.
Classification(value) ==
    IF value.tag = "Execute"
    THEN CASE value.n.variant = "Kill"  -> "Kill"
           [] value.n.variant = "Pause" -> "Pause"
           [] OTHER -> "Partition"
    ELSE CASE value.n.variant = "Kill"  -> "Resume"
           [] value.n.variant = "Pause" -> "Start"
           [] OTHER -> "Join"

\* C28: push_nemesis appends exactly one entry: type Info, process the
\* nemesis pseudo-process, no error, value the textual form after
\* 'Execute: ' or 'Recover: ', and f the classification of the fault: Kill,
\* Pause, or Partition for every partition-type intent when executing;
\* Resume, Start, Join for Kill, Pause, Net records when recovering.
C28_NemesisEntry ==
    [][(IsNemesisCall /\ lastCall'.value.n.variant # "Noop") =>
         LET value == lastCall'.value
             e == history'[Len(history')] IN
           /\ ~panicked'
           /\ Len(history') = Len(history) + 1
           /\ SubSeq(history', 1, Len(history)) = history
           /\ e.type_ = "Info"
           /\ e.process = ProcessNemesis
           /\ e.error = None
           /\ e.value.kind = "String"
           /\ e.value.text = <<IF value.tag = "Execute" THEN "Execute: " ELSE "Recover: ",
                               value.n.variant, value.n.arg>>
           /\ e.f = FuncNemesis(Classification(value))
           /\ e.index = Len(history)
           /\ e.time = now - start_time]_vars
C28_Witness ==
    /\ Len(history) = 3
    /\ history[1].f = FuncNemesis("Partition")
    /\ history[1].value.text = <<"Execute: ", "PartitionHalves", {1, 2}>>
    /\ history[2].f = FuncNemesis("Join")
    /\ history[3].f = FuncNemesis("Resume")

(***************************************************************************)
(* SpecCodec: the history written to JSON and read back.  The Serialize    *)
(* and Deserialize impls are the ones serde derives from the attributes    *)
(* of src/src/history.rs 24-83 and src/src/nemesis/mod.rs 15-43; a         *)
(* document is the JSON value whose text serde_json writes and parses.     *)
(* The impls of Op, OpFunctionType and OpOrNemesisFuncType live in op.rs   *)
(* and follow spec.md section 9: variants with per-variant tags.           *)
(***************************************************************************)
MaxList == 2   \* entries of a converted history list

\* serde_json documents
JNull   == [j |-> "null", v |-> 0]
JStr(s) == [j |-> "str", v |-> s]
JNum(n) == [j |-> "num", v |-> n]
JArr(a) == [j |-> "arr", v |-> a]
JObj(o) == [j |-> "obj", v |-> o]

\* Result<T, serde_json::Error>
Ok(x) == Some(x)
Err   == None
IsOk(r) == IsSome(r)

\* Vec<T>: every element is read, the first failure fails the whole
AllOk(rs) == \A i \in 1..Len(rs) : IsOk(rs[i])
Collected(rs) == IF AllOk(rs) THEN Ok([i \in 1..Len(rs) |-> Unwrap(rs[i])]) ELSE Err

\* u64
u64_serialize(n) == JNum(n)
u64_deserialize(d) == IF d.j = "num" /\ d.v >= 0 THEN Ok(d.v) ELSE Err

\* A unit-variant enum written as its label: the variant carrying label d.v
LabelOf(labels, name) == JStr(labels[name])
NameOf(labels, d) ==
    IF d.j = "str" /\ \E n \in DOMAIN labels : labels[n] = d.v
    THEN Ok(CHOOSE n \in DOMAIN labels : labels[n] = d.v)
    ELSE Err

\* enum HistoryType, #[serde(rename = ...)] of each variant
HistoryTypeLabels ==
    [Invoke |-> ":invoke", Ok |-> ":ok", Fail |-> ":fail", Info |-> ":info"]
HistoryType_serialize(t) == LabelOf(HistoryTypeLabels, t)
HistoryType_deserialize(d) == NameOf(HistoryTypeLabels, d)

\* enum SerializableNemesisType, #[serde(rename = ...)] of each variant
SerializableNemesisTypeLabels ==
    [BitflipWal |-> ":bitflip-wal", BitflipSnap |-> ":bitflip-snap",
     TruncateWal |-> ":truncate-wal", Pause |-> ":pause", Kill |-> ":kill",
     Partition |-> ":leave", Clock |-> ":clock", Join |-> ":join",
     Start |-> ":start", Resume |-> ":resume"]
SerializableNemesisType_serialize(n) == LabelOf(SerializableNemesisTypeLabels, n)
SerializableNemesisType_deserialize(d) == NameOf(SerializableNemesisTypeLabels, d)

\* enum OpFunctionType: one label per variant
OpFunctionTypeLabels == [read |-> ":read", write |-> ":write", txn |-> ":txn"]
OpFunctionType_serialize(n) == LabelOf(OpFunctionTypeLabels, n)
OpFunctionType_deserialize(d) == NameOf(OpFunctionTypeLabels, d)

\* enum OpOrNemesisFuncType: the label of the variant it wraps; read back as
\* the first of Op, Nemesis that accepts the label
OpOrNemesisFuncType_serialize(f) ==
    IF f.kind = "Op" THEN OpFunctionType_serialize(f.name)
    ELSE SerializableNemesisType_serialize(f.name)
OpOrNemesisFuncType_deserialize(d) ==
    LET op  == OpFunctionType_deserialize(d)
        nem == SerializableNemesisType_deserialize(d)
    IN  IF IsOk(op) THEN Ok(FuncOp(Unwrap(op)))
        ELSE IF IsOk(nem) THEN Ok(FuncNemesis(Unwrap(nem)))
        ELSE Err

\* Op::Read / Op::Write: the variant's tag followed by its fields
MicroOp_serialize(op) ==
    IF op.kind = "Read"
    THEN JArr(<<JStr(":r"), JNum(op.key),
                IF IsSome(op.val) THEN JNum(Unwrap(op.val)) ELSE JNull>>)
    ELSE JArr(<<JStr(":w"), JNum(op.key), JNum(Unwrap(op.val))>>)
MicroOp_deserialize(d) ==
    IF d.j = "arr" /\ Len(d.v) = 3 /\ d.v[1].j = "str" /\ d.v[2].j = "num"
    THEN CASE d.v[1].v = ":r" /\ d.v[3].j = "null" -> Ok(OpRead(d.v[2].v, None))
           [] d.v[1].v = ":r" /\ d.v[3].j = "num"  -> Ok(OpRead(d.v[2].v, Some(d.v[3].v)))
           [] d.v[1].v = ":w" /\ d.v[3].j = "num"  -> Ok(OpWrite(d.v[2].v, d.v[3].v))
           [] OTHER -> Err
    ELSE Err

\* enum Op; Txn is the list of its members
Op_serialize(op) ==
    IF op.kind = "Txn"
    THEN JArr([i \in 1..Len(op.ops) |-> MicroOp_serialize(op.ops[i])])
    ELSE MicroOp_serialize(op)
Op_deserialize(d) ==
    LET micro == MicroOp_deserialize(d)
    IN  IF IsOk(micro) THEN micro
        ELSE IF d.j = "arr"
        THEN LET ops == Collected([i \in 1..Len(d.v) |-> MicroOp_deserialize(d.v[i])])
             IN  IF IsOk(ops) THEN Ok(OpTxn(Unwrap(ops))) ELSE Err
        ELSE Err

\* #[serde(untagged)] enum HistoryValue { String(String), Op(Op) }: written
\* as the wrapped value, read back as the first variant that accepts it
HistoryValue_serialize(v) ==
    IF v.kind = "String" THEN JStr(v.text) ELSE Op_serialize(v.op)
HistoryValue_deserialize(d) ==
    IF d.j = "str" THEN Ok(ValueString(d.v))
    ELSE LET op == Op_deserialize(d)
         IN  IF IsOk(op) THEN Ok(ValueOp(Unwrap(op))) ELSE Err

\* enum HistoryProcess { #[serde(rename = ":nemesis")] Nemesis,
\*                       #[serde(untagged)] Gen(u64) }
HistoryProcess_serialize(p) ==
    IF p.kind = "Nemesis" THEN JStr(":nemesis") ELSE u64_serialize(p.id)
HistoryProcess_deserialize(d) ==
    IF d.j = "str" /\ d.v = ":nemesis" THEN Ok(ProcessNemesis)
    ELSE LET id == u64_deserialize(d)
         IN  IF IsOk(id) THEN Ok(ProcessGen(Unwrap(id))) ELSE Err

\* type ErrorType = Vec<String>
ErrorType_serialize(e) == JArr([i \in 1..Len(e) |-> JStr(e[i])])
ErrorType_deserialize(d) ==
    IF d.j = "arr" /\ \A i \in 1..Len(d.v) : d.v[i].j = "str"
    THEN Ok([i \in 1..Len(d.v) |-> d.v[i].v])
    ELSE Err

\* Option<ERR> read from a present field: null is None
OptionError_deserialize(d) ==
    IF d.j = "null" THEN Ok(None)
    ELSE LET e == ErrorType_deserialize(d)
         IN  IF IsOk(e) THEN Ok(Some(Unwrap(e))) ELSE Err

\* The fields a document of an entry must have
RequiredFields == {":index", ":type", ":f", ":value", ":time", ":process"}

\* struct SerializableHistory, Serialize: one field per #[serde(rename)];
\* ":error" is skipped when the error is None (skip_serializing_if)
SerializableHistory_serialize(e) ==
    LET fields == (":index" :> u64_serialize(e.index))
               @@ (":type" :> HistoryType_serialize(e.type_))
               @@ (":f" :> OpOrNemesisFuncType_serialize(e.f))
               @@ (":value" :> HistoryValue_serialize(e.value))
               @@ (":time" :> u64_serialize(e.time))
               @@ (":process" :> HistoryProcess_serialize(e.process))
    IN  JObj(IF IsNone(e.error) THEN fields
             ELSE fields @@ (":error" :> ErrorType_serialize(Unwrap(e.error))))

SerializableHistory_deserialize_error_required(d) ==
    IF d.j = "obj" /\ (RequiredFields \cup {":error"}) \subseteq DOMAIN d.v
    THEN LET index   == u64_deserialize(d.v[":index"])
             type_   == HistoryType_deserialize(d.v[":type"])
             f       == OpOrNemesisFuncType_deserialize(d.v[":f"])
             value   == HistoryValue_deserialize(d.v[":value"])
             time    == u64_deserialize(d.v[":time"])
             process == HistoryProcess_deserialize(d.v[":process"])
             error   == OptionError_deserialize(d.v[":error"])
         IN  IF AllOk(<<index, type_, f, value, time, process, error>>)
             THEN Ok(SerializableHistory(Unwrap(index), Unwrap(type_), Unwrap(f),
                                         Unwrap(value), Unwrap(time),
                                         Unwrap(process), Unwrap(error)))
             ELSE Err
    ELSE Err

\* struct SerializableHistory, Deserialize: every field but the Option is
\* required; a missing ":error" reads as None
SerializableHistory_deserialize(d) ==
    IF d.j = "obj" /\ RequiredFields \subseteq DOMAIN d.v
    THEN LET index   == u64_deserialize(d.v[":index"])
             type_   == HistoryType_deserialize(d.v[":type"])
             f       == OpOrNemesisFuncType_deserialize(d.v[":f"])
             value   == HistoryValue_deserialize(d.v[":value"])
             time    == u64_deserialize(d.v[":time"])
             process == HistoryProcess_deserialize(d.v[":process"])
             error   == IF ":error" \in DOMAIN d.v
                        THEN OptionError_deserialize(d.v[":error"])
                        ELSE Ok(None)
         IN  IF AllOk(<<index, type_, f, value, time, process, error>>)
             THEN Ok(SerializableHistory(Unwrap(index), Unwrap(type_), Unwrap(f),
                                         Unwrap(value), Unwrap(time),
                                         Unwrap(process), Unwrap(error)))
             ELSE Err
    ELSE Err

\* struct SerializableHistoryList(pub Vec<SerializableHistory>)
SerializableHistoryList_serialize(list) ==
    JArr([i \in 1..Len(list) |-> SerializableHistory_serialize(list[i])])
SerializableHistoryList_deserialize(d) ==
    IF d.j = "arr"
    THEN Collected([i \in 1..Len(d.v) |-> SerializableHistory_deserialize(d.v[i])])
    ELSE Err

\* The operations and payloads of the converted entries, with their labels
CodecOps ==
    {OpRead(1, None), OpRead(1, Some(2)), OpWrite(1, 2),
     OpTxn(<<OpRead(1, None), OpWrite(2, 3)>>), OpTxn(<<>>)}
CodecPayloads ==
    {[f |-> FuncOp(OpFunctionTypeOf(op)), value |-> ValueOp(op)] : op \in CodecOps}
    \cup {[f |-> FuncNemesis(n), value |-> ValueString("Execute: {\"Kill\":[1]}")] :
            n \in DOMAIN SerializableNemesisTypeLabels}
    \cup {[f |-> FuncOp("read"), value |-> ValueString(s)] : s \in {":nemesis", ":read", ""}}
CodecProcesses == {ProcessGen(0), ProcessGen(1), ProcessNemesis}
CodecErrors == {None, Some(<<>>), Some(<<"timeout", "retry">>)}

\* The entries that follow the first one of a converted list
Companions ==
    {SerializableHistory(1, "Fail", FuncOp("write"), ValueOp(OpWrite(1, 2)), 9,
                         ProcessGen(1), Some(<<"timeout">>)),
     SerializableHistory(1, "Info", FuncNemesis("Partition"),
                         ValueString("Recover: {\"Net\":{}}"), 9, ProcessNemesis, None),
     SerializableHistory(1, "Ok", FuncOp("read"), ValueOp(OpRead(1, Some(2))), 9,
                         ProcessGen(0), None)}

\* codec.entry = 0: the whole list is converted; otherwise that entry alone
Codec(list, entry, doc, back, pc) ==
    [list |-> list, entry |-> entry, doc |-> doc, back |-> back, pc |-> pc]

InitCodec ==
    /\ HistInit /\ RunIdle /\ RegIdle /\ PoolIdle
    /\ GenIdle /\ ConcIdle /\ GroupIdle
    /\ \E n \in 0..MaxList :
         \E t \in HistoryType, p \in CodecProcesses, fv \in CodecPayloads,
            e \in CodecErrors, time \in {0, 5} :
           \E rest \in [2..n -> Companions] :
              codec = Codec([i \in 1..n |->
                               IF i = 1
                               THEN SerializableHistory(0, t, fv.f, fv.value, time, p, e)
                               ELSE rest[i]],
                            0, None, None, "new")

CodecFrame == UNCHANGED <<histVars, runVars, regVars, poolVars, genVars, concVars, groupVars>>

\* serde_json::to_string(&list)
Serialize ==
    /\ codec.pc = "new"
    /\ codec' = [codec EXCEPT !.doc = Some(SerializableHistoryList_serialize(codec.list)),
                              !.pc = "encoded"]
    /\ CodecFrame

\* serde_json::to_string(&list.0[i])
SerializeEntry ==
    /\ codec.pc = "new"
    /\ \E i \in 1..Len(codec.list) :
         codec' = [codec EXCEPT !.entry = i,
                                !.doc = Some(SerializableHistory_serialize(codec.list[i])),
                                !.pc = "encoded"]
    /\ CodecFrame

\* serde_json::from_str::<SerializableHistoryList>(text)
Deserialize ==
    /\ codec.pc = "encoded"
    /\ codec.entry = 0
    /\ codec' = [codec EXCEPT !.back = Some(SerializableHistoryList_deserialize(Unwrap(codec.doc))),
                              !.pc = "decoded"]
    /\ CodecFrame

\* serde_json::from_str::<SerializableHistory>(text)
DeserializeEntry ==
    /\ codec.pc = "encoded"
    /\ codec.entry > 0
    /\ codec' = [codec EXCEPT !.back = Some(SerializableHistory_deserialize(Unwrap(codec.doc))),
                              !.pc = "decoded"]
    /\ CodecFrame

NextCodec == Serialize \/ SerializeEntry \/ Deserialize \/ DeserializeEntry
SpecCodec == InitCodec /\ [][NextCodec]_vars

\* The value that was converted
Converted == IF codec.entry = 0 THEN codec.list ELSE codec.list[codec.entry]

\* C29: a history list, or a single entry, written to JSON and read back is
\* read without an error and equals the value that was written, whatever the
\* entry's type, process kind, value kind and error.
C29_RoundTrip ==
    codec.pc = "decoded" => codec.back = Some(Ok(Converted))

\* A whole list was read back: a nemesis entry with a string payload and no
\* error, followed by an operation of a numbered process with an error.
C29_Witness ==
    /\ codec.pc = "decoded"
    /\ codec.entry = 0
    /\ Len(codec.list) = 2
    /\ codec.list[1].process = ProcessNemesis
    /\ codec.list[1].value.kind = "String"
    /\ IsNone(codec.list[1].error)
    /\ codec.list[2].process = ProcessGen(1)
    /\ codec.list[2].value.kind = "Op"
    /\ IsSome(codec.list[2].error)
    /\ codec.back = Some(Ok(codec.list))

====
